---- MODULE Spec2Model ----
(***************************************************************************)
(* A model of the AI quiz generator plugin (src/src/main.ts and            *)
(* src/src/questionTypes.ts): the quiz vault and its handlers (fresh       *)
(* generation, collect-more, copy, delete, answer selection, submit,       *)
(* persistence), and the pure functions of the content pipeline            *)
(* (de-duplication, randomizer, plan builder, JSON recovery parser).       *)
(*                                                                         *)
(* Conventions.                                                            *)
(*  - A JavaScript string is a TLA+ string; Chars(s) is its sequence of    *)
(*    one-character strings and Str(cs) the string of such a sequence.     *)
(*  - Three characters cannot be written in a TLA+ string literal and are  *)
(*    written with stand-ins that occur nowhere else in the model's texts: *)
(*    BACKTICK, LDQUO/RDQUO (U+201C/U+201D), LSQUO/RSQUO (U+2018/U+2019).  *)
(*  - A JavaScript number that may be fractional (answer_index,            *)
(*    user_answer_index) is held in half units: the integer h stands for   *)
(*    the number h/2, so Num(i) = 2*i is the integer i and an odd h is a   *)
(*    non-integer.                                                         *)
(***************************************************************************)
EXTENDS Integers, Sequences, FiniteSets, TLC

VARIABLES
  (* isNearDuplicate applied to drawn arguments *)
  dupText, dupExisting, dupTokenSets, dupResult,
  (* randomizeQuestionChoices applied to a drawn question *)
  shufIn, shufOut,
  (* buildQuestionTypePlan applied to drawn settings and a drawn count *)
  planSettings, planTotal, planOut,
  (* safeParseJson applied to a drawn model output *)
  jsonIn, jsonOut,
  (* normalizeQuestion applied to a drawn candidate and choicesCount *)
  normIn, normOut,
  (* computeGrade applied to a drawn quiz *)
  gradeIn, gradeOut,
  (* extractOutputText applied to a drawn response envelope *)
  extractIn, extractOut

dupVars == <<dupText, dupExisting, dupTokenSets, dupResult>>
shufVars == <<shufIn, shufOut>>
planVars == <<planSettings, planTotal, planOut>>
jsonVars == <<jsonIn, jsonOut>>
normVars == <<normIn, normOut>>
gradeVars == <<gradeIn, gradeOut>>
extractVars == <<extractIn, extractOut>>
VARIABLES quizzes, heap, currentQuizId, nextId, view, gen, add, saves, stored,
          calls, clicks
(* A second invocation of addMoreQuestionsToCurrentQuiz, made while the    *)
(* first is in progress                                                    *)
VARIABLES addOther
appVars == <<quizzes, heap, currentQuizId, nextId, view, gen, add, saves, stored,
             calls, clicks, addOther>>
vars == <<dupVars, shufVars, planVars, jsonVars, normVars, gradeVars, extractVars, appVars>>

(***************************************************************************)
(* Generic helpers                                                         *)
(***************************************************************************)
(* A JavaScript number in half units, and the integer part of one *)
Num(i) == 2 * i
IsInteger(h) == h % 2 = 0
(* A value that may be null: <<>> is null and <<x>> is the value x *)
NullValue == <<>>
Some(x) == <<x>>

Min(a, b) == IF a <= b THEN a ELSE b
Max(a, b) == IF a >= b THEN a ELSE b

Chars(s) == [i \in 1..Len(s) |-> SubSeq(s, i, i)]

(* Recursion is by halves: the depth stays logarithmic in the length *)
RECURSIVE Str(_)
Str(cs) ==
  IF Len(cs) = 0 THEN ""
  ELSE IF Len(cs) = 1 THEN cs[1]
  ELSE LET m == Len(cs) \div 2
       IN Str(SubSeq(cs, 1, m)) \o Str(SubSeq(cs, m + 1, Len(cs)))

Range(f) == {f[i] : i \in DOMAIN f}

SetMin(S) == CHOOSE x \in S : \A y \in S : x <= y
SetMax(S) == CHOOSE x \in S : \A y \in S : x >= y

(* The elements of cs at the positions i with keep[i], in order *)
Filter(cs, keep) ==
  LET marked == SelectSeq([i \in 1..Len(cs) |-> <<cs[i], keep[i]>>],
                          LAMBDA p : p[2])
  IN [i \in 1..Len(marked) |-> marked[i][1]]

(* String.prototype.toLowerCase on the letters A-Z *)
UpperCase == Chars("ABCDEFGHIJKLMNOPQRSTUVWXYZ")
LowerCase == Chars("abcdefghijklmnopqrstuvwxyz")
Digits == Chars("0123456789")
ToLowerChar(c) ==
  IF \E i \in 1..26 : UpperCase[i] = c
  THEN LowerCase[CHOOSE i \in 1..26 : UpperCase[i] = c]
  ELSE c

(* \s of a JavaScript regular expression and of String.prototype.trim,    *)
(* on the characters of the model                                          *)
IsSpace(c) == c \in {" ", "\n", "\t"}

(* String.prototype.trim *)
TrimChars(cs) ==
  LET solid == {i \in 1..Len(cs) : ~IsSpace(cs[i])}
  IN IF solid = {} THEN <<>> ELSE SubSeq(cs, SetMin(solid), SetMax(solid))
Trim(s) == Str(TrimChars(Chars(s)))

(***************************************************************************)
(* Deduplicator: normText, tokenSet, jaccard, isNearDuplicate              *)
(***************************************************************************)
(* .replace(/\s+/g, " "): each run of whitespace becomes one space *)
CollapseSpaces(cs) ==
  Filter([i \in 1..Len(cs) |-> IF IsSpace(cs[i]) THEN " " ELSE cs[i]],
         [i \in 1..Len(cs) |-> ~IsSpace(cs[i]) \/ i = 1 \/ ~IsSpace(cs[i - 1])])

(* .replace(/[^a-z0-9 ]/g, " ") *)
KeepAlnum(cs) ==
  [i \in 1..Len(cs) |->
     IF cs[i] \in Range(LowerCase) \cup Range(Digits) \cup {" "}
     THEN cs[i] ELSE " "]

normTextChars(cs) ==
  TrimChars(CollapseSpaces(KeepAlnum([i \in 1..Len(cs) |-> ToLowerChar(cs[i])])))

normText(s) == Str(normTextChars(Chars(s)))

(* String.prototype.split(" "): the pieces between single spaces, in      *)
(* order; "" splits into <<"">>.  A piece starts at 1 or after a space    *)
(* and ends before the next space or at the end.                          *)
SplitSpace(cs) ==
  LET n == Len(cs)
      starts == SelectSeq([i \in 1..(n + 1) |-> i],
                          LAMBDA i : i = 1 \/ cs[i - 1] = " ")
      stop(i) == IF \E j \in i..n : cs[j] = " "
                 THEN SetMin({j \in i..n : cs[j] = " "})
                 ELSE n + 1
  IN [k \in 1..Len(starts) |-> Str(SubSeq(cs, starts[k], stop(starts[k]) - 1))]

tokenSet(s) ==
  LET toks == SplitSpace(Chars(normText(s)))
  IN {toks[i] : i \in {j \in DOMAIN toks : Len(toks[j]) >= 3}}

(* jaccard returns the fraction inter/uni, held as [num, den]; 0 is 0/1 *)
jaccard(a, b) ==
  IF Cardinality(a) = 0 \/ Cardinality(b) = 0 THEN [num |-> 0, den |-> 1]
  ELSE LET inter == Cardinality({x \in a : x \in b})
           uni == Cardinality(a) + Cardinality(b) - inter
       IN IF uni # 0 THEN [num |-> inter, den |-> uni]
          ELSE [num |-> 0, den |-> 1]

(* r >= 0.72 for a fraction r of small integers *)
AtLeastThreshold(r) == r.num * 100 >= 72 * r.den

isNearDuplicate_strict(qText, existing, existingTokenSets) ==
  LET n == normText(qText)
      t == tokenSet(n)
  IN IF n = "" THEN TRUE
     ELSE IF n \in existing THEN TRUE
     ELSE \E i \in DOMAIN existingTokenSets :
            LET r == jaccard(t, existingTokenSets[i])
            IN r.num * 100 > 72 * r.den

isNearDuplicate(qText, existing, existingTokenSets) ==
  LET n == normText(qText)
      t == tokenSet(n)
  IN IF n = "" THEN TRUE
     ELSE IF n \in existing THEN TRUE
     ELSE \E i \in DOMAIN existingTokenSets :
            AtLeastThreshold(jaccard(t, existingTokenSets[i]))

(***************************************************************************)
(* Randomizer: shuffleInPlace, randomizeQuestionChoices,                   *)
(* randomizeQuestions                                                      *)
(***************************************************************************)
(* The draws of one Fisher-Yates pass over n elements: for each position   *)
(* i from n down to 2 (i - 1 down to 1 in the code's 0-based counting) the *)
(* position js[i] in 1..i that Math.floor(Math.random() * (i + 1)) picks.  *)
ShuffleDraws(n) == {js \in [2..n -> 1..n] : \A i \in 2..n : js[i] <= i}

Swap(arr, i, j) == [arr EXCEPT ![i] = arr[j], ![j] = arr[i]]

RECURSIVE ShuffleFrom(_, _, _)
ShuffleFrom(arr, js, i) ==
  IF i < 2 THEN arr ELSE ShuffleFrom(Swap(arr, i, js[i]), js, i - 1)

shuffleInPlace(arr, js) == ShuffleFrom(arr, js, Len(arr))

(* Array.prototype.findIndex(p => p.idx === x) over the pairs, 0-based,    *)
(* -1 when no pair has that idx; idx is an integer, x any number           *)
FindIdx(pairs, x) ==
  IF \E k \in 1..Len(pairs) : Num(pairs[k].idx) = x
  THEN SetMin({k \in 1..Len(pairs) : Num(pairs[k].idx) = x}) - 1
  ELSE -1

randomizeQuestionChoices_noremap(q, js) ==
  LET pairs == shuffleInPlace([i \in 1..Len(q.choices) |->
                                 [text |-> q.choices[i], idx |-> i - 1]], js)
  IN [q EXCEPT !.choices = [i \in 1..Len(pairs) |-> pairs[i].text]]

randomizeQuestionChoices_nofloor(q, js) ==
  LET pairs == shuffleInPlace([i \in 1..Len(q.choices) |->
                                 [text |-> q.choices[i], idx |-> i - 1]], js)
      newAnswerIndex == FindIdx(pairs, q.answer_index)
      newUserIndex ==
        IF q.user_answer_index = NullValue THEN NullValue
        ELSE Some(Num(FindIdx(pairs, q.user_answer_index[1])))
  IN [q EXCEPT !.choices = [i \in 1..Len(pairs) |-> pairs[i].text],
               !.answer_index = Num(newAnswerIndex),
               !.user_answer_index = newUserIndex]

randomizeQuestionChoices(q, js) ==
  LET pairs == shuffleInPlace([i \in 1..Len(q.choices) |->
                                 [text |-> q.choices[i], idx |-> i - 1]], js)
      newAnswerIndex == FindIdx(pairs, q.answer_index)
      newUserIndex ==
        IF q.user_answer_index = NullValue THEN NullValue
        ELSE Some(Num(FindIdx(pairs, q.user_answer_index[1])))
  IN [q EXCEPT !.choices = [i \in 1..Len(pairs) |-> pairs[i].text],
               !.answer_index = Num(Max(0, newAnswerIndex)),
               !.user_answer_index = newUserIndex]

(* randomizeQuestions: every question's choices shuffled with its own      *)
(* draws cjs[i], then the questions shuffled with the draws qjs            *)
randomizeQuestions(questions, cjs, qjs) ==
  shuffleInPlace([i \in 1..Len(questions) |->
                    randomizeQuestionChoices(questions[i], cjs[i])], qjs)

(***************************************************************************)
(* Plan Builder: questionTypeRegistry, clampInt, buildQuestionTypePlan,    *)
(* totalQuestionsFromPlan                                                  *)
(***************************************************************************)
(* The registry's entries, named by their toggle keys, in its order *)
questionTypeRegistry ==
  << "matchingEnabled", "selectAllEnabled", "fillBlankEnabled",
     "multipleChoiceEnabled", "trueFalseEnabled", "shortLongEnabled" >>

MULTIPLE_CHOICE_TOGGLE_KEY == "multipleChoiceEnabled"

(* clampInt on an integer n: parseInt(String(n), 10) is n, so the          *)
(* fallback for a non-finite value is never taken                          *)
clampInt(n, min, max, fallback) == Max(min, Min(max, n))

(* Question type settings: for each registry entry its toggle and its      *)
(* quantity, [enabled, quantity]                                           *)
buildQuestionTypePlan_unclamped(questionTypeSettings, totalCount) ==
  LET enabledEntries ==
        SelectSeq(questionTypeRegistry,
                  LAMBDA entry : questionTypeSettings[entry].enabled)
      mapped == [i \in 1..Len(enabledEntries) |->
                   [entry |-> enabledEntries[i],
                    quantity |-> Max(0, questionTypeSettings[enabledEntries[i]].quantity)]]
      plan == SelectSeq(mapped, LAMBDA item : item.quantity > 0)
  IN IF Len(enabledEntries) = 0
     THEN <<[entry |-> MULTIPLE_CHOICE_TOGGLE_KEY, quantity |-> totalCount]>>
     ELSE IF Len(enabledEntries) = 1
     THEN <<[entry |-> enabledEntries[1], quantity |-> totalCount]>>
     ELSE IF Len(plan) = 0
     THEN <<[entry |-> enabledEntries[1], quantity |-> totalCount]>>
     ELSE plan

buildQuestionTypePlan_reconciled(questionTypeSettings, totalCount) ==
  LET enabledEntries ==
        SelectSeq(questionTypeRegistry,
                  LAMBDA entry : questionTypeSettings[entry].enabled)
  IN IF Len(enabledEntries) = 0
     THEN <<[entry |-> MULTIPLE_CHOICE_TOGGLE_KEY, quantity |-> totalCount]>>
     ELSE <<[entry |-> enabledEntries[1], quantity |-> totalCount]>>

(* The plan without the filter that drops the entries of quantity 0 *)
buildQuestionTypePlan_unfiltered(questionTypeSettings, totalCount) ==
  LET enabledEntries ==
        SelectSeq(questionTypeRegistry,
                  LAMBDA entry : questionTypeSettings[entry].enabled)
      plan == [i \in 1..Len(enabledEntries) |->
                 [entry |-> enabledEntries[i],
                  quantity |-> clampInt(questionTypeSettings[enabledEntries[i]].quantity,
                                        0, totalCount, 0)]]
  IN IF Len(enabledEntries) = 0
     THEN <<[entry |-> MULTIPLE_CHOICE_TOGGLE_KEY, quantity |-> totalCount]>>
     ELSE IF Len(enabledEntries) = 1
     THEN <<[entry |-> enabledEntries[1], quantity |-> totalCount]>>
     ELSE plan

buildQuestionTypePlan(questionTypeSettings, totalCount) ==
  LET enabledEntries ==
        SelectSeq(questionTypeRegistry,
                  LAMBDA entry : questionTypeSettings[entry].enabled)
      fallback ==
        SelectSeq(questionTypeRegistry,
                  LAMBDA entry : entry = MULTIPLE_CHOICE_TOGGLE_KEY)
      mapped == [i \in 1..Len(enabledEntries) |->
                   [entry |-> enabledEntries[i],
                    quantity |-> clampInt(questionTypeSettings[enabledEntries[i]].quantity,
                                          0, totalCount, 0)]]
      plan == SelectSeq(mapped, LAMBDA item : item.quantity > 0)
  IN IF Len(enabledEntries) = 0
     THEN IF Len(fallback) > 0
          THEN <<[entry |-> fallback[1], quantity |-> totalCount]>>
          ELSE <<>>
     ELSE IF Len(enabledEntries) = 1
     THEN <<[entry |-> enabledEntries[1], quantity |-> totalCount]>>
     ELSE IF Len(plan) = 0
     THEN <<[entry |-> enabledEntries[1], quantity |-> totalCount]>>
     ELSE plan

RECURSIVE SumQuantities(_, _)
SumQuantities(plan, i) ==
  IF i > Len(plan) THEN 0 ELSE plan[i].quantity + SumQuantities(plan, i + 1)

totalQuestionsFromPlan(plan) == SumQuantities(plan, 1)

(* !totalQuestions: the plan asks for no question *)
PlanEmpty(plan) == totalQuestionsFromPlan(plan) = 0

DEFAULT_QUESTION_TYPE_SETTINGS ==
  [entry \in Range(questionTypeRegistry) |->
     IF entry = MULTIPLE_CHOICE_TOGGLE_KEY
     THEN [enabled |-> TRUE, quantity |-> 10]
     ELSE [enabled |-> FALSE, quantity |-> 0]]

(***************************************************************************)
(* Parsed JSON values.  A value is a record [t, v] with its type t in      *)
(* "undefined", "null", "boolean", "number", "string", "array", "object";  *)
(* an array's v is the sequence of its elements and an object's v the      *)
(* function from its keys to their values.  ParseFailure stands for a      *)
(* text that safeParseJson rejects.                                        *)
(***************************************************************************)
Undefined == [t |-> "undefined", v |-> <<>>]
JNull == [t |-> "null", v |-> <<>>]
JBool(b) == [t |-> "boolean", v |-> b]
JNum(h) == [t |-> "number", v |-> h]
JStr(s) == [t |-> "string", v |-> s]
JArr(seq) == [t |-> "array", v |-> seq]
JObj(f) == [t |-> "object", v |-> f]
JStrs(seq) == JArr([i \in 1..Len(seq) |-> JStr(seq[i])])
ParseFailure == [t |-> "error", v |-> <<>>]

(* value?.key *)
Get(value, key) ==
  IF value.t = "object" /\ key \in DOMAIN value.v THEN value.v[key] ELSE Undefined

(***************************************************************************)
(* Schema registry: the type guards of questionTypes.ts and                *)
(* matchQuestionType                                                       *)
(***************************************************************************)
isRecord(value) == value.t \in {"object", "array"}
isString(value) == value.t = "string"
isNumber(value) == value.t = "number"
isBoolean(value) == value.t = "boolean"
isStringArray(value) ==
  value.t = "array" /\ \A i \in 1..Len(value.v) : isString(value.v[i])
isNumberArray(value) ==
  value.t = "array" /\ \A i \in 1..Len(value.v) : isNumber(value.v[i])

isMatchingQuestion(value) ==
  /\ isRecord(value)
  /\ isString(Get(value, "prompt"))
  /\ Get(value, "pairs").t = "array"
  /\ Len(Get(value, "pairs").v) # 0
  /\ \A i \in 1..Len(Get(value, "pairs").v) :
       LET pair == Get(value, "pairs").v[i]
       IN /\ isRecord(pair)
          /\ isString(Get(pair, "left"))
          /\ isString(Get(pair, "right"))

isSelectAllQuestion(value) ==
  /\ isRecord(value)
  /\ isString(Get(value, "q"))
  /\ isStringArray(Get(value, "choices"))
  /\ isNumberArray(Get(value, "correct_indexes"))
  /\ Len(Get(value, "correct_indexes").v) > 0

isFillBlankQuestion(value) ==
  /\ isRecord(value)
  /\ isString(Get(value, "q"))
  /\ isString(Get(value, "answer"))

isMultipleChoiceQuestion(value) ==
  /\ isRecord(value)
  /\ isString(Get(value, "q"))
  /\ isStringArray(Get(value, "choices"))
  /\ isNumber(Get(value, "answer_index"))

isTrueFalseQuestion(value) ==
  /\ isRecord(value)
  /\ isString(Get(value, "q"))
  /\ isBoolean(Get(value, "answer"))

isShortLongAnswerQuestion(value) ==
  /\ isRecord(value)
  /\ isString(Get(value, "q"))
  /\ isString(Get(value, "ideal_answer"))
  /\ isString(Get(value, "grading_criteria"))

typeGuard(entry, value) ==
  CASE entry = "matchingEnabled" -> isMatchingQuestion(value)
    [] entry = "selectAllEnabled" -> isSelectAllQuestion(value)
    [] entry = "fillBlankEnabled" -> isFillBlankQuestion(value)
    [] entry = "multipleChoiceEnabled" -> isMultipleChoiceQuestion(value)
    [] entry = "trueFalseEnabled" -> isTrueFalseQuestion(value)
    [] entry = "shortLongEnabled" -> isShortLongAnswerQuestion(value)

NoMatch == "none"

(* The last registry entry whose guard accepts the question *)
matchQuestionType_last(question) ==
  LET hits == {i \in 1..Len(questionTypeRegistry) :
                 typeGuard(questionTypeRegistry[i], question)}
  IN IF hits = {} THEN NoMatch ELSE questionTypeRegistry[SetMax(hits)]

(* A lookup that takes the multiple-choice entry whenever its guard       *)
(* accepts the question                                                    *)
matchQuestionType_prefermc(question) ==
  LET hits == {i \in 1..Len(questionTypeRegistry) :
                 typeGuard(questionTypeRegistry[i], question)}
  IN IF hits = {} THEN NoMatch
     ELSE IF typeGuard(MULTIPLE_CHOICE_TOGGLE_KEY, question)
     THEN MULTIPLE_CHOICE_TOGGLE_KEY
     ELSE questionTypeRegistry[SetMin(hits)]

(* The first registry entry whose guard accepts the question, or NoMatch *)
matchQuestionType(question) ==
  LET hits == {i \in 1..Len(questionTypeRegistry) :
                 typeGuard(questionTypeRegistry[i], question)}
  IN IF hits = {} THEN NoMatch ELSE questionTypeRegistry[SetMin(hits)]

(***************************************************************************)
(* Question Normalizer and Grading Engine                                  *)
(***************************************************************************)
(* A QuizQuestion: [q, choices, answer_index, user_answer_index]; the id   *)
(* (a fresh uid) and the explanation, which nothing reads, are left out.   *)
NoQuestion ==
  [q |-> "", choices |-> <<>>, answer_index |-> 0, user_answer_index |-> NullValue]

(* The choices trimmed, the blank ones kept *)
TrimmedChoices_keepblank(value) ==
  IF value.t # "array" THEN <<>>
  ELSE [i \in 1..Len(value.v) |-> Trim(value.v[i].v)]

(* q.choices.map(x => String(x).trim()).filter(Boolean) *)
TrimmedChoices(value) ==
  IF value.t # "array" THEN <<>>
  ELSE SelectSeq([i \in 1..Len(value.v) |-> Trim(value.v[i].v)],
                 LAMBDA c : c # "")

(* The result of normalizeQuestion: the question, or the error thrown *)
normalizeQuestion(q, choicesCount) ==
  LET matched == matchQuestionType(q)
      qq == Trim(Get(q, "q").v)
      choices == TrimmedChoices(Get(q, "choices"))
      ai == Get(q, "answer_index").v
  IN IF matched = NoMatch
     THEN [ok |-> FALSE, err |-> "NoSchema", question |-> NoQuestion]
     ELSE IF matched # MULTIPLE_CHOICE_TOGGLE_KEY
     THEN [ok |-> FALSE, err |-> "UnsupportedType", question |-> NoQuestion]
     ELSE IF qq = ""
     THEN [ok |-> FALSE, err |-> "MissingText", question |-> NoQuestion]
     ELSE IF Len(choices) # choicesCount
     THEN [ok |-> FALSE, err |-> "ChoiceCountMismatch", question |-> NoQuestion]
     ELSE [ok |-> TRUE, err |-> "",
           question |->
             [q |-> qq,
              choices |-> choices,
              answer_index |-> Max(0, Min(Num(Len(choices) - 1), ai)),
              user_answer_index |-> NullValue]]

(* 100 * a / b rounded down *)
RoundPercent_down(a, b) == (100 * a) \div b

(* Math.round(100 * a / b): half up *)
RoundPercent(a, b) == (200 * a + b) \div (2 * b)

NoGrade == <<>>

computeGrade(quiz) ==
  LET total == Len(quiz.questions)
      per == [i \in 1..total |->
                LET question == quiz.questions[i]
                    ua == question.user_answer_index
                    isAnswered == ua # NullValue
                IN [isAnswered |-> isAnswered,
                    isCorrect |-> isAnswered /\ ua[1] = question.answer_index,
                    ua |-> ua,
                    ca |-> question.answer_index]]
      answered == Cardinality({i \in 1..total : per[i].isAnswered})
      correct == Cardinality({i \in 1..total : per[i].isCorrect})
  IN [total |-> total, answered |-> answered, correct |-> correct,
      accuracyAnswered |-> IF answered # 0 THEN RoundPercent(correct, answered) ELSE 0,
      accuracyTotal |-> IF total # 0 THEN RoundPercent(correct, total) ELSE 0,
      per |-> per]

(***************************************************************************)
(* Output Extractor: extractOutputText                                     *)
(***************************************************************************)
(* typeof value === "string" && value.trim() *)
IsNonBlankString(value) == isString(value) /\ Trim(value.v) # ""

(* The positions <<i, j>> of the content items c = out[i].content[j] at    *)
(* which the loops of extractOutputText return c.text                      *)
TextPositions(out) ==
  {p \in UNION {{<<i, j>> : j \in 1..(IF Get(out.v[i], "content").t = "array"
                                       THEN Len(Get(out.v[i], "content").v)
                                       ELSE 0)} : i \in 1..Len(out.v)} :
     LET item == out.v[p[1]]
         c == Get(item, "content").v[p[2]]
     IN /\ Get(item, "type") = JStr("message")
        /\ \/ Get(c, "type") = JStr("output_text") /\ IsNonBlankString(Get(c, "text"))
           \/ IsNonBlankString(Get(c, "text"))}

Earlier(p, r) == p[1] < r[1] \/ (p[1] = r[1] /\ p[2] <= r[2])

extractOutputText_last(resp) ==
  LET out == Get(resp, "output")
      hits == IF out.t = "array" THEN TextPositions(out) ELSE {}
      last == CHOOSE p \in hits : \A r \in hits : Earlier(r, p)
  IN IF IsNonBlankString(Get(resp, "output_text")) THEN Get(resp, "output_text").v
     ELSE IF out.t # "array" THEN ""
     ELSE IF hits = {} THEN ""
     ELSE Get(Get(out.v[last[1]], "content").v[last[2]], "text").v

extractOutputText(resp) ==
  LET out == Get(resp, "output")
      hits == IF out.t = "array" THEN TextPositions(out) ELSE {}
      first == CHOOSE p \in hits : \A r \in hits : Earlier(p, r)
  IN IF IsNonBlankString(Get(resp, "output_text")) THEN Get(resp, "output_text").v
     ELSE IF out.t # "array" THEN ""
     ELSE IF hits = {} THEN ""
     ELSE Get(Get(out.v[first[1]], "content").v[first[2]], "text").v

(***************************************************************************)
(* JSON recovery: repairJsonCommon, findLastBalancedJsonEnd,               *)
(* looksTruncatedJson and safeParseJson                                    *)
(***************************************************************************)
(* The backtick and the four curly quotes cannot be written in a string    *)
(* of this module: each is one character of the texts and is written as    *)
(* the stand-in below, which the texts use for nothing else                *)
BACKTICK == "~"
LDQUO == "<"
RDQUO == ">"
LSQUO == "^"
RSQUO == "$"

CharAt(cs, i) == IF i \in 1..Len(cs) THEN cs[i] ELSE ""

(* The first position from i on that holds no whitespace, Len(cs) + 1 if   *)
(* there is none                                                           *)
SkipSpace(cs, i) ==
  SetMin({j \in i..Len(cs) : ~IsSpace(cs[j])} \cup {Max(i, Len(cs) + 1)})

(* A loop runs its iterations in order, each on the finished result of    *)
(* the one before: Evaluated(x) holds once x has been computed             *)
Evaluated(x) == x = x

(* The patterns of repairJsonCommon, in the order of its replace calls *)
RepairPatterns ==
  <<"fence_json", "fence", "double_quotes", "single_quotes",
    "object_join", "array_join", "trailing_comma">>

(* The length of the match of a pattern that starts at position i, 0 when  *)
(* the pattern does not match there                                        *)
MatchLen(pat, cs, i) ==
  CASE pat = "fence_json" ->
         IF CharAt(cs, i) = BACKTICK /\ CharAt(cs, i + 1) = BACKTICK /\ CharAt(cs, i + 2) = BACKTICK
         THEN IF /\ ToLowerChar(CharAt(cs, i + 3)) = "j"
                 /\ ToLowerChar(CharAt(cs, i + 4)) = "s"
                 /\ ToLowerChar(CharAt(cs, i + 5)) = "o"
                 /\ ToLowerChar(CharAt(cs, i + 6)) = "n"
              THEN 7 ELSE 3
         ELSE 0
    [] pat = "fence" ->
         IF CharAt(cs, i) = BACKTICK /\ CharAt(cs, i + 1) = BACKTICK /\ CharAt(cs, i + 2) = BACKTICK
         THEN 3 ELSE 0
    [] pat = "double_quotes" -> IF cs[i] \in {LDQUO, RDQUO} THEN 1 ELSE 0
    [] pat = "single_quotes" -> IF cs[i] \in {LSQUO, RSQUO} THEN 1 ELSE 0
    [] pat = "object_join" ->
         IF cs[i] # "}" THEN 0
         ELSE LET j == SkipSpace(cs, i + 1)
              IN IF CharAt(cs, j) = "{" /\ \E k \in (i + 1)..(j - 1) : cs[k] = "\n"
                 THEN j - i + 1 ELSE 0
    [] pat = "array_join" ->
         IF cs[i] # "]" THEN 0
         ELSE LET j == SkipSpace(cs, i + 1)
              IN IF CharAt(cs, j) = "[" /\ \E k \in (i + 1)..(j - 1) : cs[k] = "\n"
                 THEN j - i + 1 ELSE 0
    [] pat = "trailing_comma" ->
         IF cs[i] # "," THEN 0
         ELSE LET j == SkipSpace(cs, i + 1)
              IN IF CharAt(cs, j) \in {"}", "]"} THEN j - i + 1 ELSE 0

(* What replaces the match of length len that starts at position i *)
Replacement(pat, cs, i, len) ==
  CASE pat \in {"fence_json", "fence"} -> <<>>
    [] pat = "double_quotes" -> <<"\"">>
    [] pat = "single_quotes" -> <<"'">>
    [] pat = "object_join" -> <<"}", ",", "{">>
    [] pat = "array_join" -> <<"]", ",", "[">>
    [] pat = "trailing_comma" -> <<cs[i + len - 1]>>

(* String.prototype.replace with a global pattern: matches are taken from  *)
(* left to right and do not overlap.  st.next is the position the scan     *)
(* resumes at and st.out the text produced so far                          *)
ReplaceStep(pat, cs, i, st) ==
  IF i < st.next THEN st
  ELSE LET len == MatchLen(pat, cs, i)
       IN IF len > 0
          THEN [next |-> i + len, out |-> st.out \o Replacement(pat, cs, i, len)]
          ELSE [next |-> i + 1, out |-> Append(st.out, cs[i])]

(* The steps at the positions lo..hi in order; by halves, to keep the      *)
(* recursion shallow                                                       *)
RECURSIVE ReplaceRange(_, _, _, _, _)
ReplaceRange(pat, cs, lo, hi, st) ==
  IF lo > hi THEN st
  ELSE IF lo = hi THEN ReplaceStep(pat, cs, lo, st)
  ELSE LET mid == (lo + hi) \div 2
           left == ReplaceRange(pat, cs, lo, mid, st)
       IN IF Evaluated(left) THEN ReplaceRange(pat, cs, mid + 1, hi, left) ELSE left

ReplaceAll(pat, cs) ==
  ReplaceRange(pat, cs, 1, Len(cs), [next |-> 1, out |-> <<>>]).out

RECURSIVE ReplaceEach(_, _, _)
ReplaceEach(pats, k, cs) ==
  IF k > Len(pats) THEN cs
  ELSE LET replaced == ReplaceAll(pats[k], cs)
       IN IF Evaluated(replaced) THEN ReplaceEach(pats, k + 1, replaced) ELSE replaced

repairJsonCommon(cs) == TrimChars(ReplaceEach(RepairPatterns, 1, cs))

(* The loop variables of the two bracket scans, and the value of lastEnd   *)
(* that stands for null (positions count from 1)                           *)
NoEnd == 0
ScanInit == [inStr |-> FALSE, esc |-> FALSE, depth |-> 0, lastEnd |-> NoEnd]

(* One iteration of the scan loop, on the character ch at position i *)
ScanStep(st, ch, i) ==
  IF st.inStr
  THEN IF st.esc THEN [st EXCEPT !.esc = FALSE]
       ELSE IF ch = "\\" THEN [st EXCEPT !.esc = TRUE]
       ELSE IF ch = "\"" THEN [st EXCEPT !.inStr = FALSE]
       ELSE st
  ELSE IF ch = "\"" THEN [st EXCEPT !.inStr = TRUE]
  ELSE IF ch \in {"{", "["} THEN [st EXCEPT !.depth = @ + 1]
  ELSE IF ch \in {"}", "]"}
  THEN [st EXCEPT !.depth = @ - 1,
                  !.lastEnd = IF st.depth - 1 = 0 THEN i ELSE @]
  ELSE st

RECURSIVE ScanRange(_, _, _, _)
ScanRange(cs, lo, hi, st) ==
  IF lo > hi THEN st
  ELSE IF lo = hi THEN ScanStep(st, cs[lo], lo)
  ELSE LET mid == (lo + hi) \div 2
           left == ScanRange(cs, lo, mid, st)
       IN IF Evaluated(left) THEN ScanRange(cs, mid + 1, hi, left) ELSE left

findLastBalancedJsonEnd(cs, start) == ScanRange(cs, start, Len(cs), ScanInit).lastEnd

IsOpener(c) == c \in {"{", "["}
IsCloser(c) == c \in {"}", "]"}

(* The scan without its string state: every bracket counts *)
looksTruncatedJson_plain(cs) ==
  LET t == TrimChars(cs)
  IN IF Len(t) = 0 THEN TRUE
     ELSE IF ~IsCloser(t[Len(t)]) THEN TRUE
     ELSE Cardinality({i \in 1..Len(t) : IsOpener(t[i])})
            # Cardinality({i \in 1..Len(t) : IsCloser(t[i])})

looksTruncatedJson(cs) ==
  LET t == TrimChars(cs)
  IN IF Len(t) = 0 THEN TRUE
     ELSE IF ~IsCloser(t[Len(t)]) THEN TRUE
     ELSE ScanRange(t, 1, Len(t), ScanInit).depth # 0

(***************************************************************************)
(* JSON.parse, on the JSON the texts of the model use: objects, arrays,    *)
(* strings with the escapes \" \\ \/ \n \t, integers, true, false, null    *)
(***************************************************************************)
ParseFail == [ok |-> FALSE, value |-> Undefined, next |-> 0]
ParseOk(value, next) == [ok |-> TRUE, value |-> value, next |-> next]

(* The number of backslashes in a row that end just before position j,     *)
(* counted no further back than position lo                                *)
BackslashesBefore(cs, lo, j) ==
  j - SetMin({k \in lo..j : \A m \in k..(j - 1) : cs[m] = "\\"})

(* The position of the quote that closes the string opened at i, 0 if the  *)
(* string is not closed                                                    *)
StringEnd(cs, i) ==
  LET ends == {j \in (i + 1)..Len(cs) :
                 cs[j] = "\"" /\ BackslashesBefore(cs, i + 1, j) % 2 = 0}
  IN IF ends = {} THEN 0 ELSE SetMin(ends)

ParseString(cs, i) ==
  LET end == StringEnd(cs, i)
      IsLead(p) == cs[p] = "\\" /\ BackslashesBefore(cs, i + 1, p) % 2 = 0
      IsEscaped(p) == p > i + 1 /\ IsLead(p - 1)
      inner == (i + 1)..(end - 1)
      decoded == [p \in inner |->
                    IF ~IsEscaped(p) THEN cs[p]
                    ELSE IF cs[p] = "n" THEN "\n"
                    ELSE IF cs[p] = "t" THEN "\t"
                    ELSE cs[p]]
      kept == {p \in inner : ~IsLead(p)}
      valid == \A p \in inner :
                 IF IsEscaped(p) THEN cs[p] \in {"\"", "\\", "/", "n", "t"}
                 ELSE IsLead(p) \/ cs[p] \notin {"\n", "\t"}
      content == Filter([k \in 1..(end - i - 1) |-> decoded[i + k]],
                        [k \in 1..(end - i - 1) |-> (i + k) \in kept])
  IN IF end = 0 \/ ~valid THEN ParseFail ELSE ParseOk(JStr(Str(content)), end + 1)

IsDigit(c) == \E k \in 1..10 : Digits[k] = c
DigitValue(c) == (CHOOSE k \in 1..10 : Digits[k] = c) - 1

RECURSIVE DigitsValue(_, _, _)
DigitsValue(cs, lo, hi) ==
  IF lo > hi THEN 0 ELSE 10 * DigitsValue(cs, lo, hi - 1) + DigitValue(cs[hi])

ParseNumber(cs, i) ==
  LET neg == cs[i] = "-"
      d == IF neg THEN i + 1 ELSE i
      run == SetMax({j \in (d - 1)..Len(cs) : \A k \in d..j : IsDigit(cs[k])})
      end == IF CharAt(cs, d) = "0" THEN d ELSE run
      n == DigitsValue(cs, d, end)
  IN IF end < d THEN ParseFail
     ELSE ParseOk(JNum(Num(IF neg THEN 0 - n ELSE n)), end + 1)

StartsWith(cs, i, word) ==
  /\ i + Len(word) - 1 <= Len(cs)
  /\ \A k \in 1..Len(word) : cs[i + k - 1] = SubSeq(word, k, k)

(* The object whose members are the pairs <<key, value>>: a repeated key   *)
(* keeps its last value                                                    *)
FromPairs(pairs) ==
  [key \in {pairs[k][1] : k \in 1..Len(pairs)} |->
     pairs[SetMax({k \in 1..Len(pairs) : pairs[k][1] = key})][2]]

RECURSIVE ParseValue(_, _), ParseElements(_, _, _), ParseMembers(_, _, _)
ParseValue(cs, from) ==
  LET i == SkipSpace(cs, from)
      ch == CharAt(cs, i)
  IN IF ch = "{"
     THEN LET j == SkipSpace(cs, i + 1)
          IN IF CharAt(cs, j) = "}" THEN ParseOk(JObj(<<>>), j + 1)
             ELSE ParseMembers(cs, j, <<>>)
     ELSE IF ch = "["
     THEN LET j == SkipSpace(cs, i + 1)
          IN IF CharAt(cs, j) = "]" THEN ParseOk(JArr(<<>>), j + 1)
             ELSE ParseElements(cs, j, <<>>)
     ELSE IF ch = "\"" THEN ParseString(cs, i)
     ELSE IF ch = "-" \/ IsDigit(ch) THEN ParseNumber(cs, i)
     ELSE IF StartsWith(cs, i, "true") THEN ParseOk(JBool(TRUE), i + 4)
     ELSE IF StartsWith(cs, i, "false") THEN ParseOk(JBool(FALSE), i + 5)
     ELSE IF StartsWith(cs, i, "null") THEN ParseOk(JNull, i + 4)
     ELSE ParseFail

ParseElements(cs, from, acc) ==
  LET r == ParseValue(cs, from)
      j == SkipSpace(cs, r.next)
  IN IF ~r.ok THEN ParseFail
     ELSE IF CharAt(cs, j) = "," THEN ParseElements(cs, j + 1, Append(acc, r.value))
     ELSE IF CharAt(cs, j) = "]" THEN ParseOk(JArr(Append(acc, r.value)), j + 1)
     ELSE ParseFail

ParseMembers(cs, from, acc) ==
  LET k == SkipSpace(cs, from)
      key == ParseString(cs, k)
      colon == SkipSpace(cs, key.next)
      r == ParseValue(cs, colon + 1)
      j == SkipSpace(cs, r.next)
      members == Append(acc, <<key.value.v, r.value>>)
  IN IF CharAt(cs, k) # "\"" THEN ParseFail
     ELSE IF ~key.ok \/ CharAt(cs, colon) # ":" THEN ParseFail
     ELSE IF ~r.ok THEN ParseFail
     ELSE IF CharAt(cs, j) = "," THEN ParseMembers(cs, j + 1, members)
     ELSE IF CharAt(cs, j) = "}" THEN ParseOk(JObj(FromPairs(members)), j + 1)
     ELSE ParseFail

JSONparse(cs) ==
  LET r == ParseValue(cs, 1)
  IN IF r.ok /\ SkipSpace(cs, r.next) > Len(cs) THEN r ELSE ParseFail

(* String.prototype.indexOf, positions counting from 1: 0 for not found *)
IndexOf(cs, c) ==
  LET found == {i \in 1..Len(cs) : cs[i] = c}
  IN IF found = {} THEN 0 ELSE SetMin(found)

(* The outcome of safeParseJson: the parsed value, or the error thrown *)
Parsed(value) == [ok |-> TRUE, value |-> value, err |-> ""]
Thrown(err) == [ok |-> FALSE, value |-> Undefined, err |-> err]

safeParseJson(text) ==
  LET raw == TrimChars(Chars(text))
  IN IF Len(raw) = 0 THEN Thrown("Empty")
     ELSE
       LET cleaned == repairJsonCommon(raw)
           direct == JSONparse(cleaned)
           o == IndexOf(cleaned, "{")
           a == IndexOf(cleaned, "[")
           start == IF o >= 1 /\ (a < 1 \/ o < a) THEN o ELSE a
           end == findLastBalancedJsonEnd(cleaned, start)
           candidate == JSONparse(repairJsonCommon(SubSeq(cleaned, start, end)))
           tail == repairJsonCommon(SubSeq(cleaned, start, Len(cleaned)))
           last == JSONparse(tail)
       IN IF direct.ok THEN Parsed(direct.value)
          ELSE IF start < 1 THEN Thrown("NotJson")
          ELSE IF end # NoEnd /\ candidate.ok THEN Parsed(candidate.value)
          ELSE IF last.ok THEN Parsed(last.value)
          ELSE IF looksTruncatedJson(tail) THEN Thrown("Truncated")
          ELSE Thrown("Invalid")

(***************************************************************************)
(* SpecDup: isNearDuplicate applied to drawn arguments                     *)
(***************************************************************************)
MaxExisting == 2

(* 21 and 22 three-letter tokens sharing 18: Jaccard exactly 18/25 = 0.72 *)
SharedTokens == "baa bab bac bad bae baf bag bah bai baj bak bal bam ban bao bap baq bar"
LongTextA == SharedTokens \o " caa cab cac"
LongTextB == SharedTokens \o " daa dab dac dad"

DupSeedTexts ==
  { "What is the capital of France?", "cat dog emu", "an it", LongTextB }

DupTexts ==
  DupSeedTexts \cup
  { "What's the capital city of France?", "Name the longest river in Egypt",
    "Cat, DOG; emu fox!", "cat dog", "AN  it.", "?!", "", LongTextA }

RECURSIVE SeqsUpTo(_, _)
SeqsUpTo(S, n) ==
  IF n = 0 THEN {<<>>}
  ELSE LET shorter == SeqsUpTo(S, n - 1)
       IN shorter \cup {Append(q, x) : q \in {r \in shorter : Len(r) = n - 1}, x \in S}

DupIdle ==
  /\ dupText = ""
  /\ dupExisting = {}
  /\ dupTokenSets = <<>>
  /\ dupResult = [done |-> FALSE, v |-> FALSE]

DupInit ==
  /\ dupText \in DupTexts
  /\ dupExisting \in SUBSET {normText(t) : t \in DupSeedTexts}
  /\ dupTokenSets \in SeqsUpTo({tokenSet(t) : t \in DupSeedTexts}, MaxExisting)
  /\ dupResult = [done |-> FALSE, v |-> FALSE]

DupCheck ==
  /\ ~dupResult.done
  /\ dupResult' = [done |-> TRUE,
                   v |-> isNearDuplicate(dupText, dupExisting, dupTokenSets)]
  /\ UNCHANGED <<dupText, dupExisting, dupTokenSets>>
  /\ UNCHANGED <<shufVars, planVars, jsonVars, normVars, gradeVars, extractVars, appVars>>


(***************************************************************************)
(* SpecShuffle: randomizeQuestionChoices applied to a drawn question with  *)
(* drawn random numbers                                                    *)
(***************************************************************************)
MaxShuffleChoices == 4

ShuffleChoiceTexts == {"Paris", "Rome"}

(* Numbers from -1 to n in half steps, so out of range and non-integer     *)
(* values are among them                                                   *)
HalfSteps(n) == (-2)..(2 * n)

ShuffleQuestions ==
  {[q |-> "capital?", choices |-> cs, answer_index |-> ai, user_answer_index |-> ua] :
     cs \in SeqsUpTo(ShuffleChoiceTexts, MaxShuffleChoices) \ {<<>>},
     ai \in HalfSteps(MaxShuffleChoices),
     ua \in {NullValue} \cup {Some(u) : u \in HalfSteps(MaxShuffleChoices)}}

ShufIdle ==
  /\ shufIn = <<>>
  /\ shufOut = <<>>

ShufInit ==
  /\ shufIn \in {Some(q) : q \in ShuffleQuestions}
  /\ shufOut = <<>>

Randomize ==
  /\ shufOut = <<>>
  /\ \E js \in ShuffleDraws(Len(shufIn[1].choices)) :
       shufOut' = Some(randomizeQuestionChoices(shufIn[1], js))
  /\ UNCHANGED shufIn
  /\ UNCHANGED <<dupVars, planVars, jsonVars, normVars, gradeVars, extractVars, appVars>>

(***************************************************************************)
(* SpecPlan: buildQuestionTypePlan applied to drawn settings and a drawn   *)
(* requested count                                                         *)
(***************************************************************************)
MaxPlanTotal == 2

(* Configured quantities: none, one, and more than any requested count *)
PlanQuantities == {0, 1, MaxPlanTotal + 1}

PlanIdle ==
  /\ planSettings = <<>>
  /\ planTotal = 0
  /\ planOut = <<>>

PlanInit ==
  /\ planSettings \in [Range(questionTypeRegistry) ->
                         [enabled : BOOLEAN, quantity : PlanQuantities]]
  /\ planTotal \in 1..MaxPlanTotal
  /\ planOut = <<>>

BuildPlan ==
  /\ planOut = <<>>
  /\ planOut' = Some(buildQuestionTypePlan(planSettings, planTotal))
  /\ UNCHANGED <<planSettings, planTotal>>
  /\ UNCHANGED <<dupVars, shufVars, jsonVars, normVars, gradeVars, extractVars, appVars>>

(***************************************************************************)
(* Spec: the plugin.  The vault is unlocked; its settings enable the       *)
(* multiple-choice type and hold an API key, and every quiz is generated   *)
(* from pasted text, so the early exits of the two generation calls that   *)
(* depend on settings are not taken.                                       *)
(*                                                                         *)
(* Quiz objects live in heap, keyed by their id; quizzes is                *)
(* vaultPlain.quizzes, the list of the ids of the objects the vault holds. *)
(* A deleted quiz leaves the list and stays in the heap, where the         *)
(* closures of a view rendered earlier, or a collect-more call in flight,  *)
(* still reach it.                                                         *)
(***************************************************************************)
MaxQuizzes == 2
MaxGenerations == 1
MaxCollects == 1
MaxClicks == 1
MaxSaves == 2
MaxBatch == 2
MaxCount == 2

(* while (collected.length < desired && attempts < 3) *)
(* The bound of a loop that tests attempts <= 3 *)
MaxAttempts_inclusive == 3 + 1

MaxAttempts == 3
(* Math.min(12, desired - collected.length) *)
MaxPerRequest == 12
(* clampInt(count, 1, 50, 5) *)
MinDesired == 1
MaxDesired == 50
DefaultDesired == 5

NoId == 0

(* The choices-per-question values of the generation calls *)
ChoicesCounts == {2}

(* The questions a model response may hold *)
QFrance ==
  JObj([q |-> JStr("What is the capital of France?"),
        choices |-> JStrs(<<"Paris", "Rome">>),
        answer_index |-> JNum(Num(0))])
QFranceNow ==
  JObj([q |-> JStr(" What is the capital of France now? "),
        choices |-> JStrs(<<"Paris ", "Rome">>),
        answer_index |-> JNum(1)])
QNile ==
  JObj([q |-> JStr("Name the longest river in Egypt"),
        choices |-> JStrs(<<"Congo", "Nile">>),
        answer_index |-> JNum(Num(5))])
QBlank ==
  JObj([q |-> JStr("Which metal is liquid?"),
        choices |-> JStrs(<<"Mercury", " ">>),
        answer_index |-> JNum(Num(0))])
QFill ==
  JObj([q |-> JStr("Water boils at"),
        choices |-> JStrs(<<"100", "50">>),
        answer_index |-> JNum(Num(0)),
        answer |-> JStr("100")])
QMars ==
  JObj([q |-> JStr("Which planet is called red?"),
        choices |-> JStrs(<<"Mars", "Venus">>),
        answer_index |-> JNum(Num(0))])
RawQuestions == {QFrance, QFranceNow, QNile, QBlank, QFill}

(* What safeParseJson(extractOutputText(resp.json)) yields: a failure, or  *)
(* a parsed value with or without a list of questions                      *)
Responses ==
  {ParseFailure, JObj([title |-> JStr("Quiz")]), JArr(<<QFrance>>)}
    \cup {JObj([questions |-> JArr(batch)]) : batch \in SeqsUpTo(RawQuestions, MaxBatch)}

(* The responses to generateFromText that the model explores *)
GenerateResponses ==
  {ParseFailure, JObj([title |-> JStr("Quiz")]), JArr(<<QFrance>>)}
    \cup {JObj([questions |-> JArr(batch)]) :
            batch \in {<<>>, <<QFrance>>, <<QFranceNow>>, <<QFill>>,
                       <<QFrance, QBlank>>, <<QNile, QFrance>>}}

(* The questions and the responses of the collect-more call taken alone *)
AddMoreQuestions == {QFrance, QFranceNow, QNile, QMars, QBlank}
AddMoreResponses ==
  {ParseFailure}
    \cup {JObj([questions |-> JArr(batch)]) :
            batch \in SeqsUpTo(AddMoreQuestions, MaxBatch)}

NoView == [quizId |-> NoId, idx |-> 0, len |-> 0, submitted |-> FALSE]
GenIdle == [pc |-> "idle", choicesCount |-> 0, kind |-> "", err |-> ""]
AddIdle ==
  [pc |-> "idle", quizId |-> NoId, desired |-> 0, existingQuestions |-> <<>>,
   collected |-> <<>>, attempts |-> 0, reqCount |-> 0, reqTotalQuestions |-> 0,
   repeats |-> 0, settings |-> DEFAULT_QUESTION_TYPE_SETTINGS, err |-> ""]

(* vaultPlain.quizzes as JSON.stringify sees it *)
VaultQuizzes == [i \in 1..Len(quizzes) |-> heap[quizzes[i]]]

(* getCurrentQuiz: the id of the quiz it returns, NoId for null *)
getCurrentQuiz(qs, cur) ==
  LET id == IF cur # NoId THEN cur ELSE IF Len(qs) > 0 THEN qs[1] ELSE NoId
  IN IF id # NoId /\ id \in Range(qs) THEN id ELSE NoId

(* this.currentQuizId after getCurrentQuiz *)
CurrentAfterGet(qs, cur) ==
  IF getCurrentQuiz(qs, cur) # NoId THEN getCurrentQuiz(qs, cur) ELSE cur

(* AIQuizView.render on the quiz tab: what the new DOM's closures capture  *)
(* (the quiz, idx, the length and the submitted flag that buttons were     *)
(* enabled by), the clamped quiz.currentIndex, and the current-quiz        *)
(* pointer getCurrentQuiz leaves                                           *)
renderQuiz(h, qs, cur) ==
  LET id == getCurrentQuiz(qs, cur)
  IN IF id = NoId
     THEN [view |-> NoView, heap |-> h, cur |-> cur]
     ELSE LET quiz == h[id]
              idx == clampInt(quiz.currentIndex, 0, Len(quiz.questions) - 1, 0)
          IN [view |-> [quizId |-> id, idx |-> idx, len |-> Len(quiz.questions),
                        submitted |-> quiz.submitted],
              heap |-> [h EXCEPT ![id].currentIndex = idx],
              cur |-> id]

(* saveEncrypted() called by owner: a save that has yet to derive its key *)
IssueSave(owner) == Append(saves, [owner |-> owner, pc |-> "derive", snap |-> <<>>])

RemoveAt(seq, i) == SubSeq(seq, 1, i - 1) \o SubSeq(seq, i + 1, Len(seq))

(* normalizeQuestion over the questions and counts above, tabulated;      *)
(* @@ makes the table an explicit function, computed once                  *)
NormalizeTable ==
  [x \in (RawQuestions \cup AddMoreQuestions) \X ChoicesCounts |-> normalizeQuestion(x[1], x[2])] @@ <<>>
Normalized(q, choicesCount) == NormalizeTable[<<q, choicesCount>>]

(* The texts of the questions that normalize *)
QuestionTexts ==
  {NormalizeTable[x].question.q : x \in {y \in DOMAIN NormalizeTable : NormalizeTable[y].ok}}

(* The normalized text and the token set of each of those texts *)
NormTable == [t \in QuestionTexts |-> normText(t)] @@ <<>>
TokenTable == [t \in QuestionTexts |-> tokenSet(t)] @@ <<>>

(* A set as a sequence, in some order *)
SeqOf(S) ==
  CHOOSE seq \in [1..Cardinality(S) -> S] : Range(seq) = S

(* isNearDuplicate of a text against the normalized texts and the token    *)
(* sets of a set of texts, tabulated                                       *)
NearDuplicateTable ==
  [x \in QuestionTexts \X (SUBSET QuestionTexts) |->
     LET texts == SeqOf(x[2])
     IN isNearDuplicate(x[1],
                        {NormTable[texts[i]] : i \in 1..Len(texts)},
                        [i \in 1..Len(texts) |-> TokenTable[texts[i]]])] @@ <<>>

(* isNearDuplicate(qText, norms, tokenSets) where norms and tokenSets are  *)
(* those of the list texts                                                 *)
RepeatsOneOf_exact(qText, texts) == qText \in Range(texts)
RepeatsOneOf(qText, texts) == NearDuplicateTable[<<qText, Range(texts)>>]

(* The texts of a list of questions *)
Texts(questions) == [i \in 1..Len(questions) |-> questions[i].q]

(* How a response fares in generateFromText *)
ResponseKind(resp, choicesCount) ==
  LET questionsRaw == Get(resp, "questions")
  IN IF resp = ParseFailure THEN "parse_failure"
     ELSE IF questionsRaw.t # "array" THEN "no_questions"
     ELSE IF Len(questionsRaw.v) = 0 THEN "no_questions"
     ELSE IF \E i \in 1..Len(questionsRaw.v) :
               ~Normalized(questionsRaw.v[i], choicesCount).ok
     THEN "bad_question"
     ELSE "all_ok"

(* questionsRaw.map(q => normalizeQuestion(q, choicesCount)) throws when   *)
(* some call of normalizeQuestion does: the positions of those calls       *)
Failing_none(results) == {}
Failing(results) == {i \in 1..Len(results) : ~results[i].ok}

(* add.repeats counts the questions returned so far to a collect-more call *)
(* while every response parsed and held only questions that normalize and  *)
(* repeat a question of the quiz; NoRepeats once some response did not     *)
NoRepeats == -1

(* Every question of the response normalizes and repeats one of texts *)
OnlyDuplicates(resp, choicesCount, texts) ==
  LET questionsRaw == Get(resp, "questions")
      n == IF questionsRaw.t = "array" THEN Len(questionsRaw.v) ELSE 0
  IN /\ resp # ParseFailure
     /\ \A i \in 1..n :
          LET r == Normalized(questionsRaw.v[i], choicesCount)
          IN r.ok /\ NearDuplicateTable[<<r.question.q, Range(texts)>>]

AppInit ==
  /\ quizzes = <<>>
  /\ heap = <<>>
  /\ currentQuizId = NoId
  /\ nextId = 1
  /\ view = NoView
  /\ gen = GenIdle
  /\ add = AddIdle
  /\ saves = <<>>
  /\ stored = <<>>
  /\ calls = [gen |-> 0, add |-> 0]
  /\ clicks = 0
  /\ addOther = AddIdle

(* generateFromText up to its request *)
GenerateStart ==
  /\ gen.pc \in {"idle", "done", "failed"}
  /\ calls.gen < MaxGenerations
  /\ nextId <= MaxQuizzes
  /\ \E choicesCount \in ChoicesCounts :
       gen' = [GenIdle EXCEPT !.pc = "request", !.choicesCount = choicesCount]
  /\ calls' = [calls EXCEPT !.gen = @ + 1]
  /\ UNCHANGED <<quizzes, heap, currentQuizId, nextId, view, add, saves, stored, clicks>>
  /\ UNCHANGED <<dupVars, shufVars, planVars, jsonVars, normVars, gradeVars, extractVars,
               addOther>>

(* !Array.isArray(questionsRaw), without the test of its length *)
MissingQuestions_notarray(questionsRaw) == questionsRaw.t # "array"

(* !Array.isArray(questionsRaw) || !questionsRaw.length *)
MissingQuestions(questionsRaw) ==
  questionsRaw.t # "array" \/ Len(questionsRaw.v) = 0

(* generateFromText from the response to the call of saveEncrypted *)
GenerateResponse ==
  /\ gen.pc = "request"
  /\ \E resp \in GenerateResponses :
       LET questionsRaw == Get(resp, "questions")
           n == IF questionsRaw.t = "array" THEN Len(questionsRaw.v) ELSE 0
           normalized == [i \in 1..n |->
                            Normalized(questionsRaw.v[i], gen.choicesCount)]
           bad == Failing(normalized)
           kind == ResponseKind(resp, gen.choicesCount)
           Fail(err) ==
             /\ gen' = [gen EXCEPT !.pc = "failed", !.kind = kind, !.err = err]
             /\ UNCHANGED <<quizzes, heap, currentQuizId, nextId, saves>>
       IN IF resp = ParseFailure THEN Fail("ParseError")
          ELSE IF MissingQuestions(questionsRaw) THEN Fail("MissingQuestions")
          ELSE IF bad # {} THEN Fail(normalized[SetMin(bad)].err)
          ELSE /\ Len(saves) < MaxSaves
               /\ \E cjs \in [1..n -> ShuffleDraws(gen.choicesCount)],
                     qjs \in ShuffleDraws(n) :
                    LET quiz ==
                          [choicesCount |-> gen.choicesCount,
                           questions |->
                             randomizeQuestions(
                               [i \in 1..n |-> normalized[i].question], cjs, qjs),
                           currentIndex |-> 0,
                           submitted |-> FALSE,
                           grade |-> NoGrade]
                    IN /\ heap' = Append(heap, quiz)
                       /\ quizzes' = Append(quizzes, nextId)
                       /\ currentQuizId' = nextId
                       /\ nextId' = nextId + 1
               /\ saves' = IssueSave("gen")
               /\ gen' = [gen EXCEPT !.pc = "saving", !.kind = kind]
  /\ UNCHANGED <<view, add, stored, calls, clicks>>
  /\ UNCHANGED <<dupVars, shufVars, planVars, jsonVars, normVars, gradeVars, extractVars,
               addOther>>

(* The accept loop without its check against the questions already        *)
(* collected                                                               *)
RECURSIVE AcceptFrom_existingonly(_, _, _, _, _, _)
AcceptFrom_existingonly(normalized, i, collected, desired, existingQuestions, cjs) ==
  IF i > Len(normalized) \/ Len(collected) >= desired THEN collected
  ELSE LET q == normalized[i]
       IN IF RepeatsOneOf(q.q, existingQuestions)
          THEN AcceptFrom_existingonly(normalized, i + 1, collected, desired,
                                       existingQuestions, cjs)
          ELSE AcceptFrom_existingonly(normalized, i + 1,
                                       Append(collected, randomizeQuestionChoices(q, cjs[i])),
                                       desired, existingQuestions, cjs)

(* The accept loop without its test of the desired count *)
RECURSIVE AcceptFrom_nolimit(_, _, _, _, _, _)
AcceptFrom_nolimit(normalized, i, collected, desired, existingQuestions, cjs) ==
  IF i > Len(normalized) THEN collected
  ELSE LET q == normalized[i]
       IN IF \/ RepeatsOneOf(q.q, existingQuestions)
             \/ RepeatsOneOf(q.q, Texts(collected))
          THEN AcceptFrom_nolimit(normalized, i + 1, collected, desired,
                                  existingQuestions, cjs)
          ELSE AcceptFrom_nolimit(normalized, i + 1,
                                  Append(collected, randomizeQuestionChoices(q, cjs[i])),
                                  desired, existingQuestions, cjs)

(* The accept loop of addMoreQuestionsToCurrentQuiz over one normalized    *)
(* batch, from its i-th question on; cjs[i] are the draws of the i-th      *)
(* question's shuffle                                                      *)
RECURSIVE AcceptFrom(_, _, _, _, _, _)
AcceptFrom(normalized, i, collected, desired, existingQuestions, cjs) ==
  IF i > Len(normalized) \/ Len(collected) >= desired THEN collected
  ELSE LET q == normalized[i]
       IN IF RepeatsOneOf(q.q, existingQuestions)
          THEN AcceptFrom(normalized, i + 1, collected, desired, existingQuestions, cjs)
          ELSE IF RepeatsOneOf(q.q, Texts(collected))
          THEN AcceptFrom(normalized, i + 1, collected, desired, existingQuestions, cjs)
          ELSE AcceptFrom(normalized, i + 1,
                          Append(collected, randomizeQuestionChoices(q, cjs[i])),
                          desired, existingQuestions, cjs)

(* reqTotalQuestions of an attempt: the sum of the quantities of reqPlan,  *)
(* which generateUserPrompt states as its "Number of questions"            *)
RequestTotal(settings, reqCount) ==
  totalQuestionsFromPlan(buildQuestionTypePlan(settings, reqCount))

(* addMoreQuestionsToCurrentQuiz up to its first request, for a count and  *)
(* for question type settings of the vault drawn from the given sets; the  *)
(* settings stay as they are while the call runs                           *)
CallStart(call, callNext, counts, settingsChoices) ==
  /\ call.pc \in {"idle", "done", "failed"}
  /\ \E count \in counts, settings \in settingsChoices :
       LET id == getCurrentQuiz(quizzes, currentQuizId)
           desired == clampInt(count, MinDesired, MaxDesired, DefaultDesired)
       IN /\ currentQuizId' = CurrentAfterGet(quizzes, currentQuizId)
          /\ IF id = NoId
             THEN callNext = [AddIdle EXCEPT !.pc = "failed", !.err = "NoQuizLoaded"]
             ELSE IF heap[id].submitted
             THEN callNext = [AddIdle EXCEPT !.pc = "failed", !.quizId = id,
                                         !.err = "AlreadySubmitted"]
             ELSE IF PlanEmpty(buildQuestionTypePlan(settings, desired))
             THEN callNext = [AddIdle EXCEPT !.pc = "failed", !.quizId = id,
                                         !.err = "PlanEmpty"]
             ELSE callNext = [AddIdle EXCEPT
                            !.pc = "request",
                            !.quizId = id,
                            !.desired = desired,
                            !.existingQuestions = Texts(heap[id].questions),
                            !.attempts = 1,
                            !.settings = settings,
                            !.reqCount = Min(MaxPerRequest, desired),
                            !.reqTotalQuestions =
                              RequestTotal(settings, Min(MaxPerRequest, desired))]
  /\ UNCHANGED <<quizzes, heap, nextId, view, gen, saves, stored, clicks>>
  /\ UNCHANGED <<dupVars, shufVars, planVars, jsonVars, normVars, gradeVars, extractVars>>

AddStartWith(counts, settingsChoices) ==
  /\ calls.add < MaxCollects
  /\ calls' = [calls EXCEPT !.add = @ + 1]
  /\ CallStart(add, add', counts, settingsChoices)
  /\ UNCHANGED addOther

AddStart == AddStartWith(0..MaxCount, {DEFAULT_QUESTION_TYPE_SETTINGS})

(* addMoreQuestionsToCurrentQuiz from a response to the next request, or   *)
(* to the end of the loop and the call of saveEncrypted                    *)
(* At most maxSaves calls of saveEncrypted are in progress at a time       *)
CallResponse(call, callNext, owner, responses, maxSaves) ==
  /\ call.pc = "request"
  /\ \E resp \in responses :
       LET choicesCount == heap[call.quizId].choicesCount
           questionsRaw == Get(resp, "questions")
           n == IF questionsRaw.t = "array" THEN Len(questionsRaw.v) ELSE 0
       IN \E results \in {[i \in 1..n |-> Normalized(questionsRaw.v[i], choicesCount)]},
             repeats \in {IF /\ call.repeats # NoRepeats
                             /\ OnlyDuplicates(resp, choicesCount, call.existingQuestions)
                          THEN call.repeats + n
                          ELSE NoRepeats} :
            LET bad == Failing(results)
                normalized == [i \in 1..n |-> results[i].question]
                Fail(err) ==
                  /\ callNext = [call EXCEPT !.pc = "failed", !.err = err,
                                             !.repeats = repeats]
                  /\ UNCHANGED <<heap, saves>>
            IN IF resp = ParseFailure THEN Fail("ParseError")
               ELSE IF bad # {} THEN Fail(results[SetMin(bad)].err)
               ELSE \E cjs \in [1..n -> ShuffleDraws(choicesCount)] :
                    \E collected \in {AcceptFrom(normalized, 1, call.collected,
                                                 call.desired, call.existingQuestions,
                                                 cjs)} :
                      IF Len(collected) < call.desired /\ call.attempts < MaxAttempts
                      THEN /\ callNext = [call EXCEPT
                                        !.collected = collected,
                                        !.attempts = call.attempts + 1,
                                        !.reqCount = Min(MaxPerRequest,
                                                         call.desired - Len(collected)),
                                        !.reqTotalQuestions =
                                          RequestTotal(call.settings,
                                                       Min(MaxPerRequest,
                                                           call.desired - Len(collected))),
                                        !.repeats = repeats]
                           /\ UNCHANGED <<heap, saves>>
                      ELSE IF Len(collected) = 0
                      THEN /\ callNext = [call EXCEPT !.pc = "failed",
                                                 !.err = "NoNewQuestions",
                                                 !.repeats = repeats]
                           /\ UNCHANGED <<heap, saves>>
                      ELSE /\ Len(saves) < maxSaves
                           /\ \E fjs \in ShuffleDraws(Len(collected)) :
                                heap' = [heap EXCEPT ![call.quizId].questions =
                                           @ \o shuffleInPlace(collected, fjs)]
                           /\ saves' = IssueSave(owner)
                           /\ callNext = [call EXCEPT !.pc = "saving",
                                                 !.collected = collected,
                                                 !.repeats = repeats]
  /\ UNCHANGED <<quizzes, currentQuizId, nextId, view, gen, stored, clicks>>
  /\ UNCHANGED <<dupVars, shufVars, planVars, jsonVars, normVars, gradeVars, extractVars>>

AddResponseFrom(responses) ==
  /\ CallResponse(add, add', "add", responses, MaxSaves)
  /\ UNCHANGED <<calls, addOther>>

AddResponse == AddResponseFrom(Responses)

(* encryptWithPassword after the key derivation: JSON.stringify(obj) *)
SaveSnapshot ==
  /\ \E i \in 1..Len(saves) :
       /\ saves[i].pc = "derive"
       /\ saves' = [saves EXCEPT ![i] = [@ EXCEPT !.pc = "write", !.snap = VaultQuizzes]]
  /\ UNCHANGED <<quizzes, heap, currentQuizId, nextId, view, gen, add, stored,
                 calls, clicks>>
  /\ UNCHANGED <<dupVars, shufVars, planVars, jsonVars, normVars, gradeVars, extractVars,
               addOther>>

(* saveEncryptedBlob completes, and the caller of saveEncrypted resumes:   *)
(* generateFromText opens the quiz view, the library's Delete redraws the  *)
(* library only, every other caller renders the view                       *)
SaveDone ==
  /\ \E i \in 1..Len(saves) :
       LET save == saves[i]
           r == renderQuiz(heap, quizzes, currentQuizId)
       IN /\ save.pc = "write"
          /\ stored' = save.snap
          /\ saves' = RemoveAt(saves, i)
          /\ IF save.owner = "delete"
             THEN UNCHANGED <<view, heap, currentQuizId>>
             ELSE /\ view' = r.view
                  /\ heap' = r.heap
                  /\ currentQuizId' = r.cur
          /\ gen' = IF save.owner = "gen" THEN [gen EXCEPT !.pc = "done"] ELSE gen
          /\ add' = IF save.owner = "add" THEN [add EXCEPT !.pc = "done"] ELSE add
          /\ addOther' = IF save.owner = "other"
                         THEN [addOther EXCEPT !.pc = "done"]
                         ELSE addOther
  /\ UNCHANGED <<quizzes, nextId, calls, clicks>>
  /\ UNCHANGED <<dupVars, shufVars, planVars, jsonVars, normVars, gradeVars, extractVars>>

(* A click in the view or the library: one more of the clicks the model    *)
(* explores, and room for the save that the handler issues                 *)
Click == clicks < MaxClicks /\ clicks' = clicks + 1
Saving == Len(saves) < MaxSaves

(* The choice buttons' onclick *)
ChoiceHandler ==
  /\ view.quizId # NoId
  /\ ~heap[view.quizId].submitted
  /\ \E i \in 0..(Len(heap[view.quizId].questions[view.idx + 1].choices) - 1) :
       heap' = [heap EXCEPT
                  ![view.quizId].questions[view.idx + 1].user_answer_index =
                    Some(Num(i))]
  /\ saves' = IssueSave("view")
  /\ UNCHANGED <<quizzes, currentQuizId, nextId, view, gen, add, stored, calls>>
  /\ UNCHANGED <<dupVars, shufVars, planVars, jsonVars, normVars, gradeVars, extractVars,
               addOther>>

ChoiceClick == Click /\ Saving /\ ChoiceHandler

(* The Submit button's onclick; the button is disabled in a view rendered  *)
(* from a submitted quiz                                                   *)
SubmitHandler ==
  /\ view.quizId # NoId
  /\ ~view.submitted
  /\ heap' = [heap EXCEPT
                ![view.quizId].grade = Some(computeGrade(heap[view.quizId])),
                ![view.quizId].submitted = TRUE]
  /\ saves' = IssueSave("view")
  /\ UNCHANGED <<quizzes, currentQuizId, nextId, view, gen, add, stored, calls>>
  /\ UNCHANGED <<dupVars, shufVars, planVars, jsonVars, normVars, gradeVars, extractVars,
               addOther>>

Submit == Click /\ Saving /\ SubmitHandler

(* Prev, Next and the jump dots *)
Navigate ==
  /\ Click
  /\ Saving
  /\ view.quizId # NoId
  /\ \E i \in 0..(view.len - 1) :
       \/ /\ view.idx # 0
          /\ heap' = [heap EXCEPT ![view.quizId].currentIndex = Max(0, view.idx - 1)]
       \/ /\ view.idx # view.len - 1
          /\ heap' = [heap EXCEPT ![view.quizId].currentIndex =
                        Min(Len(heap[view.quizId].questions) - 1, view.idx + 1)]
       \/ heap' = [heap EXCEPT ![view.quizId].currentIndex = i]
  /\ saves' = IssueSave("view")
  /\ UNCHANGED <<quizzes, currentQuizId, nextId, view, gen, add, stored, calls>>
  /\ UNCHANGED <<dupVars, shufVars, planVars, jsonVars, normVars, gradeVars, extractVars,
               addOther>>

(* The Quiz tab button: render *)
ShowQuiz ==
  /\ Click
  /\ LET r == renderQuiz(heap, quizzes, currentQuizId)
     IN /\ view' = r.view
        /\ heap' = r.heap
        /\ currentQuizId' = r.cur
  /\ UNCHANGED <<quizzes, nextId, gen, add, saves, stored, calls>>
  /\ UNCHANGED <<dupVars, shufVars, planVars, jsonVars, normVars, gradeVars, extractVars,
               addOther>>

(* The library's Load: setCurrentQuiz, which renders *)
LoadHandler ==
  /\ \E id \in Range(quizzes) :
       LET r == renderQuiz(heap, quizzes, id)
       IN /\ view' = r.view
          /\ heap' = r.heap
          /\ currentQuizId' = r.cur
  /\ UNCHANGED <<quizzes, nextId, gen, add, saves, stored, calls>>
  /\ UNCHANGED <<dupVars, shufVars, planVars, jsonVars, normVars, gradeVars, extractVars,
               addOther>>

LibraryLoad == Click /\ LoadHandler

(* copyQuiz that keeps the answers the user gave in the original *)
copyQuiz_keepanswers(h, qs, cur, next, id, cjs, qjs) ==
  IF id \notin Range(qs)
  THEN [heap |-> h, quizzes |-> qs, cur |-> cur, next |-> next]
  ELSE LET orig == h[id]
           clone ==
             [orig EXCEPT
                !.currentIndex = 0,
                !.submitted = FALSE,
                !.grade = NoGrade,
                !.questions = randomizeQuestions(orig.questions, cjs, qjs)]
       IN [heap |-> Append(h, clone), quizzes |-> Append(qs, next),
           cur |-> next, next |-> next + 1]

(* copyQuiz(id) on the vault's quizzes qs, whose objects are in h, with    *)
(* cur the current quiz and next the id of the next quiz made; cjs and qjs *)
(* are the draws of randomizeQuestions                                     *)
copyQuiz(h, qs, cur, next, id, cjs, qjs) ==
  IF id \notin Range(qs)
  THEN [heap |-> h, quizzes |-> qs, cur |-> cur, next |-> next]
  ELSE LET orig == h[id]
           n == Len(orig.questions)
           clone ==
             [orig EXCEPT
                !.currentIndex = 0,
                !.submitted = FALSE,
                !.grade = NoGrade,
                !.questions =
                  randomizeQuestions(
                    [i \in 1..n |->
                       [orig.questions[i] EXCEPT !.user_answer_index = NullValue]],
                    cjs, qjs)]
       IN [heap |-> Append(h, clone), quizzes |-> Append(qs, next),
           cur |-> next, next |-> next + 1]

(* The quizzes whose rows the library shows: those of the vault, and,      *)
(* until the save of a Delete completes and the library is drawn again,    *)
(* the deleted ones                                                        *)
LibraryRows ==
  Range(quizzes)
    \cup (IF \E i \in 1..Len(saves) : saves[i].owner = "delete"
          THEN 1..Len(heap)
          ELSE {})

(* The library's Copy: copyQuiz, then saveEncrypted *)
CopyHandler ==
  /\ nextId <= MaxQuizzes
  /\ \E id \in LibraryRows :
       LET n == IF id \in Range(quizzes) THEN Len(heap[id].questions) ELSE 0
           choicesCount == heap[id].choicesCount
       IN \E cjs \in [1..n -> ShuffleDraws(choicesCount)], qjs \in ShuffleDraws(n) :
            LET r == copyQuiz(heap, quizzes, currentQuizId, nextId, id, cjs, qjs)
            IN /\ heap' = r.heap
               /\ quizzes' = r.quizzes
               /\ currentQuizId' = r.cur
               /\ nextId' = r.next
  /\ saves' = IssueSave("copy")
  /\ UNCHANGED <<view, gen, add, stored, calls>>
  /\ UNCHANGED <<dupVars, shufVars, planVars, jsonVars, normVars, gradeVars, extractVars,
               addOther>>

LibraryCopy == Click /\ Saving /\ CopyHandler

(* The library's Delete: deleteQuiz, then saveEncrypted *)
DeleteHandler ==
  /\ \E id \in Range(quizzes) :
       LET rest == SelectSeq(quizzes, LAMBDA x : x # id)
       IN /\ quizzes' = rest
          /\ currentQuizId' =
               IF currentQuizId = id
               THEN IF Len(rest) > 0 THEN rest[1] ELSE NoId
               ELSE currentQuizId
  /\ saves' = IssueSave("delete")
  /\ UNCHANGED <<heap, nextId, view, gen, add, stored, calls>>
  /\ UNCHANGED <<dupVars, shufVars, planVars, jsonVars, normVars, gradeVars, extractVars,
               addOther>>

LibraryDelete == Click /\ Saving /\ DeleteHandler

Next ==
  \/ GenerateStart
  \/ GenerateResponse
  \/ AddStart
  \/ AddResponse
  \/ SaveSnapshot
  \/ SaveDone
  \/ ChoiceClick
  \/ Submit
  \/ Navigate
  \/ ShowQuiz
  \/ LibraryLoad
  \/ LibraryCopy
  \/ LibraryDelete

(***************************************************************************)
(* SpecAddMore: addMoreQuestionsToCurrentQuiz alone, called once on a      *)
(* vault that holds one quiz of one question, for drawn question type      *)
(* settings, counts on both sides of the limits, and responses over three  *)
(* unrelated questions                                                     *)
(***************************************************************************)
(* The counts passed to the call: below the minimum, and a desired count   *)
(* below and above the most one request asks for                           *)
AddMoreCounts == {0, 2, MaxPerRequest + 1}

(* Question type settings with the multiple-choice and the true/false      *)
(* types enabled with the given quantities                                 *)
TwoTypes(multipleChoice, trueFalse) ==
  [entry \in Range(questionTypeRegistry) |->
     IF entry = MULTIPLE_CHOICE_TOGGLE_KEY
     THEN [enabled |-> TRUE, quantity |-> multipleChoice]
     ELSE IF entry = "trueFalseEnabled"
     THEN [enabled |-> TRUE, quantity |-> trueFalse]
     ELSE [enabled |-> FALSE, quantity |-> 0]]

NoneEnabled ==
  [entry \in Range(questionTypeRegistry) |-> [enabled |-> FALSE, quantity |-> 0]]

AddMoreSettings ==
  {DEFAULT_QUESTION_TYPE_SETTINGS, NoneEnabled, TwoTypes(1, 1), TwoTypes(10, 10)}

(* The quiz generateFromText made of the response that holds QFrance *)
LoadedQuiz ==
  [choicesCount |-> 2,
   questions |-> <<Normalized(QFrance, 2).question>>,
   currentIndex |-> 0,
   submitted |-> FALSE,
   grade |-> NoGrade]

(* The plugin after that call of generateFromText has returned *)
AddMoreInit ==
  /\ quizzes = <<1>>
  /\ heap = <<LoadedQuiz>>
  /\ currentQuizId = 1
  /\ nextId = 2
  /\ view = [quizId |-> 1, idx |-> 0, len |-> 1, submitted |-> FALSE]
  /\ gen = [GenIdle EXCEPT !.pc = "done", !.choicesCount = 2, !.kind = "all_ok"]
  /\ add = AddIdle
  /\ saves = <<>>
  /\ stored = <<LoadedQuiz>>
  /\ calls = [gen |-> 1, add |-> 0]
  /\ clicks = 0
  /\ addOther = AddIdle

AddMoreStart == AddStartWith(AddMoreCounts, AddMoreSettings)

AddMoreResponse == AddResponseFrom(AddMoreResponses)

NextAddMore ==
  \/ AddMoreStart
  \/ AddMoreResponse
  \/ SaveSnapshot
  \/ SaveDone

(***************************************************************************)
(* SpecSession: a user at work on a vault that holds one quiz of two       *)
(* questions: answers, Submit, the library's Load, Copy and Delete, and    *)
(* one collect-more call, with the saves they issue                        *)
(***************************************************************************)
MaxSessionClicks == 3

(* The quiz generateFromText made of the response that holds QNile and     *)
(* QFrance                                                                 *)
SessionQuiz ==
  [choicesCount |-> 2,
   questions |-> <<Normalized(QNile, 2).question, Normalized(QFrance, 2).question>>,
   currentIndex |-> 0,
   submitted |-> FALSE,
   grade |-> NoGrade]

(* The plugin after that call of generateFromText has returned *)
SessionInit ==
  /\ quizzes = <<1>>
  /\ heap = <<SessionQuiz>>
  /\ currentQuizId = 1
  /\ nextId = 2
  /\ view = [quizId |-> 1, idx |-> 0, len |-> 2, submitted |-> FALSE]
  /\ gen = [GenIdle EXCEPT !.pc = "done", !.choicesCount = 2, !.kind = "all_ok"]
  /\ add = AddIdle
  /\ saves = <<>>
  /\ stored = <<SessionQuiz>>
  /\ calls = [gen |-> 1, add |-> 0]
  /\ clicks = 0
  /\ addOther = AddIdle

SessionClick == clicks < MaxSessionClicks /\ clicks' = clicks + 1

SessionChoice == SessionClick /\ Saving /\ ChoiceHandler

SessionSubmit == SessionClick /\ Saving /\ SubmitHandler

SessionLoad == SessionClick /\ LoadHandler

SessionCopy == SessionClick /\ Saving /\ CopyHandler

SessionDelete == SessionClick /\ Saving /\ DeleteHandler

SessionAddStart == AddStartWith({1}, {DEFAULT_QUESTION_TYPE_SETTINGS})

SessionAddResponse ==
  AddResponseFrom({JObj([questions |-> JArr(<<QFranceNow, QMars>>)])})

NextSession ==
  \/ SessionChoice
  \/ SessionSubmit
  \/ SessionLoad
  \/ SessionCopy
  \/ SessionDelete
  \/ SessionAddStart
  \/ SessionAddResponse
  \/ SaveSnapshot
  \/ SaveDone

(***************************************************************************)
(* SpecAnswer: the quiz view of the vault of SpecSession while one         *)
(* collect-more call runs: answers and Submit, pressed also in a view that *)
(* the saves in progress have yet to draw again                            *)
(***************************************************************************)
MaxAnswerClicks == 3
MaxAnswerSaves == 3

AnswerClick == clicks < MaxAnswerClicks /\ clicks' = clicks + 1
AnswerSaving == Len(saves) < MaxAnswerSaves

AnswerChoice == AnswerClick /\ AnswerSaving /\ ChoiceHandler

AnswerSubmit == AnswerClick /\ AnswerSaving /\ SubmitHandler

AnswerAddStart == AddStartWith({1, 2}, {DEFAULT_QUESTION_TYPE_SETTINGS})

AnswerAddResponse ==
  /\ CallResponse(add, add', "add",
                  {ParseFailure, JObj([questions |-> JArr(<<QFranceNow, QMars>>)])},
                  MaxAnswerSaves)
  /\ UNCHANGED <<calls, addOther>>

NextAnswer ==
  \/ AnswerChoice
  \/ AnswerSubmit
  \/ AnswerAddStart
  \/ AnswerAddResponse
  \/ SaveSnapshot
  \/ SaveDone

(***************************************************************************)
(* SpecOverlap: two invocations of addMoreQuestionsToCurrentQuiz on the    *)
(* quiz of SpecAddMore, the second made while the first awaits its         *)
(* response or its save (the modal that made the first call can be closed  *)
(* and opened again; nothing in the call excludes another)                 *)
(***************************************************************************)
OverlapCounts == {1, 2}

FirstStart == AddStartWith(OverlapCounts, {DEFAULT_QUESTION_TYPE_SETTINGS})

FirstResponse == AddResponseFrom(Responses)

OtherStart ==
  /\ add.pc \in {"request", "saving"}
  /\ addOther.pc = "idle"
  /\ CallStart(addOther, addOther', OverlapCounts, {DEFAULT_QUESTION_TYPE_SETTINGS})
  /\ UNCHANGED <<add, calls>>

OtherResponse ==
  /\ CallResponse(addOther, addOther', "other", Responses, MaxSaves)
  /\ UNCHANGED <<add, calls>>

NextOverlap ==
  \/ FirstStart
  \/ FirstResponse
  \/ OtherStart
  \/ OtherResponse
  \/ SaveSnapshot
  \/ SaveDone

(***************************************************************************)
(* SpecJson: safeParseJson applied to a drawn model output                 *)
(***************************************************************************)
(* JSON.stringify without indentation; the members of an object are        *)
(* written in the order of KeyOrder                                        *)
KeyOrder == <<"title", "questions", "q", "choices", "answer_index", "a", "b">>

RECURSIVE RenderInt(_)
RenderInt(n) ==
  IF n < 0 THEN "-" \o RenderInt(0 - n)
  ELSE IF n < 10 THEN Digits[n + 1]
  ELSE RenderInt(n \div 10) \o Digits[(n % 10) + 1]

RenderString(s) ==
  LET cs == Chars(s)
  IN "\"" \o Str([i \in 1..Len(cs) |->
                    IF cs[i] = "\"" THEN "\\\""
                    ELSE IF cs[i] = "\\" THEN "\\\\"
                    ELSE IF cs[i] = "\n" THEN "\\n"
                    ELSE IF cs[i] = "\t" THEN "\\t"
                    ELSE cs[i]]) \o "\""

RECURSIVE Join(_, _)
Join(parts, k) ==
  IF k > Len(parts) THEN ""
  ELSE IF k = Len(parts) THEN parts[k]
  ELSE parts[k] \o "," \o Join(parts, k + 1)

RECURSIVE Render(_)
Render(x) ==
  CASE x.t = "null" -> "null"
    [] x.t = "boolean" -> IF x.v THEN "true" ELSE "false"
    [] x.t = "number" -> RenderInt(x.v \div 2)
    [] x.t = "string" -> RenderString(x.v)
    [] x.t = "array" ->
         "[" \o Join([i \in 1..Len(x.v) |-> Render(x.v[i])], 1) \o "]"
    [] x.t = "object" ->
         LET keys == SelectSeq(KeyOrder, LAMBDA key : key \in DOMAIN x.v)
         IN "{" \o Join([i \in 1..Len(keys) |->
                           RenderString(keys[i]) \o ":" \o Render(x.v[keys[i]])], 1)
                \o "}"

(* The ways a model output wraps or rewrites the JSON it carries *)
Fence == BACKTICK \o BACKTICK \o BACKTICK
InFences(r) == Fence \o "json\n" \o r \o "\n" \o Fence

WithCurlyQuotes(r) ==
  LET cs == Chars(r)
      QuotesUpTo(i) == Cardinality({k \in 1..i : cs[k] = "\""})
  IN Str([i \in 1..Len(cs) |->
            IF cs[i] # "\"" THEN cs[i]
            ELSE IF QuotesUpTo(i) % 2 = 1 THEN LDQUO ELSE RDQUO])

WithTrailingComma(r) ==
  SubSeq(r, 1, Len(r) - 1) \o ",\n" \o SubSeq(r, Len(r), Len(r))

ExampleQuiz ==
  JObj([title |-> JStr("t"), questions |-> JArr(<<JObj([q |-> JStr("x")])>>)])

(* Values whose strings hold only letters, digits, spaces and escapes *)
PlainValues ==
  { JNum(Num(7)), JStr("x"), JBool(TRUE), JNull, JArr(<<>>), JObj(<<>>),
    JArr(<<JNum(Num(1)), JNum(Num(-20))>>),
    JObj([q |-> JStr("x")]),
    JObj([a |-> JBool(FALSE), b |-> JStrs(<<"p", "r s">>)]),
    JStrs(<<"say \"hi\"">>),
    JStrs(<<"a\\b", "c\nd">>),
    ExampleQuiz }

(* Values whose strings hold what repairJsonCommon rewrites *)
QuotedValues ==
  { JStrs(<<"It" \o RSQUO \o "s">>),
    JStrs(<<"the " \o LDQUO \o "x" \o RDQUO \o " key">>),
    JStrs(<<"pick [a, b, ]">>),
    JObj([q |-> JStr("use " \o Fence \o " here")]),
    JObj([q |-> JStr("f(x) = {x, }")]) }

JsonValues == PlainValues \cup QuotedValues

IsContainer(x) == x.t \in {"array", "object"}

Rendering(x, wrap) ==
  [text |-> CASE wrap = "plain" -> Render(x)
              [] wrap = "fences" -> InFences(Render(x))
              [] wrap = "curly" -> WithCurlyQuotes(Render(x))
              [] wrap = "comma" -> WithTrailingComma(Render(x)),
   value |-> Some(x), wrap |-> wrap]

Renderings ==
  {Rendering(x, wrap) : x \in JsonValues, wrap \in {"plain", "fences", "curly"}}
    \cup {Rendering(x, "comma") : x \in {y \in JsonValues : IsContainer(y)}}

RawText(text, wrap) == [text |-> text, value |-> NullValue, wrap |-> wrap]

(* An output cut off by the output budget: every proper prefix of the      *)
(* example quiz                                                            *)
Truncations ==
  {RawText(SubSeq(Render(ExampleQuiz), 1, n), "cut") :
     n \in 0..(Len(Render(ExampleQuiz)) - 1)}

OtherTexts ==
  { "not json at all", "   ", Fence, "]", "{x}", "[1 2]", "{]",
    "{\"a\":\"x}", "[\"a\\\"]", "{\"a\":[1,2}", "[01]", "{\"a\":1}}",
    "Here you go: {\"q\":\"x\"} Enjoy!",
    "He said \"{\" and then [1]",
    "{\"a\":1} or {\"b\":2}",
    "{\"a\":1}\n{\"b\":2}",
    "[[1]\n[2] \n [3]]",
    "[{\"a\":1}  {\"b\":2}]",
    "[[1]\t[2]]",
    "[{\"a\":1}\n \t{\"b\":2}]",
    "Sure! " \o Fence \o "JSON\n[true , ]\n" \o Fence \o " Done {",
    "{" \o LSQUO \o "a" \o RSQUO \o ":1}" }

JsonInputs == Renderings \cup Truncations \cup {RawText(t, "raw") : t \in OtherTexts}

JsonIdle ==
  /\ jsonIn = RawText("", "none")
  /\ jsonOut = NullValue

JsonInit ==
  /\ jsonIn \in JsonInputs
  /\ jsonOut = NullValue

SafeParse ==
  /\ jsonIn.wrap # "none"
  /\ jsonOut = NullValue
  /\ jsonOut' = Some(safeParseJson(jsonIn.text))
  /\ UNCHANGED <<jsonIn, dupVars, shufVars, planVars, normVars, gradeVars, extractVars, appVars>>

(***************************************************************************)
(* SpecNormalize: normalizeQuestion applied to a drawn candidate           *)
(***************************************************************************)
MaxChoicesCount == 4

(* The candidate's members are drawn one by one: each is absent or has one *)
(* of the listed values                                                    *)
Absent == <<>>
Member(key, values) == {Absent} \cup {key :> value : value \in values}

CandidateTexts == {JStr("Q?"), JStr(" Q? "), JStr(" \n"), JNum(Num(1))}

CandidateChoices ==
  { JArr(<<>>), JStr("A,B"),
    JStrs(<<"A">>),
    JStrs(<<" A ", "", "B">>),
    JStrs(<<"A", "B", " ", "C">>),
    JStrs(<<"A", "B", "C", "D">>),
    JStrs(<<"D", " C", "B ", "A", "\t">>),
    JArr(<<JStr("A"), JNum(Num(2))>>) }

(* -1.5, -1, 0, 0.5, 1, 1.5, 3, 9 and the string "1" *)
CandidateAnswers ==
  {JNum(h) : h \in {-3, -2, 0, 1, 2, 3, 6, 18}} \cup {JStr("1")}

(* Members of the other question variants *)
CandidateExtras ==
  { Absent,
    "answer" :> JStr("x"),
    "answer" :> JBool(TRUE),
    "correct_indexes" :> JArr(<<JNum(Num(0))>>),
    "correct_indexes" :> JArr(<<>>),
    ("prompt" :> JStr("Match")) @@
      ("pairs" :> JArr(<<JObj([left |-> JStr("a"), right |-> JStr("b")])>>)),
    ("ideal_answer" :> JStr("x")) @@ ("grading_criteria" :> JStr("y")) }

Candidates ==
  { JNull, JStr("Q?"), JArr(<<>>), JBool(TRUE) } \cup
  { JObj(text @@ choices @@ answer @@ extra) :
      text \in Member("q", CandidateTexts),
      choices \in Member("choices", CandidateChoices),
      answer \in Member("answer_index", CandidateAnswers),
      extra \in CandidateExtras }

NormInit ==
  /\ normIn \in {Some([q |-> q, choicesCount |-> n]) :
                   q \in Candidates, n \in 1..MaxChoicesCount}
  /\ normOut = NullValue

Normalize ==
  /\ normIn # NullValue
  /\ normOut = NullValue
  /\ normOut' = Some(normalizeQuestion(normIn[1].q, normIn[1].choicesCount))
  /\ UNCHANGED <<normIn, dupVars, shufVars, planVars, jsonVars, gradeVars,
                 extractVars, appVars>>

NormIdle ==
  /\ normIn = NullValue
  /\ normOut = NullValue

(***************************************************************************)
(* SpecGrade: computeGrade applied to a drawn quiz                         *)
(***************************************************************************)
MaxGradeQuestions == 8

(* The question at position i has two choices and the correct choice       *)
(* alternates with i; the user's answer is null, 0 or 1                    *)
UserAnswers == {NullValue, Some(Num(0)), Some(Num(1))}

GradedQuiz(answers) ==
  [questions |->
     [i \in 1..Len(answers) |->
        [q |-> "Q?", choices |-> <<"A", "B">>,
         answer_index |-> Num(i % 2),
         user_answer_index |-> answers[i]]]]

GradeInit ==
  /\ gradeIn \in {Some(GradedQuiz(answers)) :
                    answers \in SeqsUpTo(UserAnswers, MaxGradeQuestions)}
  /\ gradeOut = NullValue

Grade ==
  /\ gradeIn # NullValue
  /\ gradeOut = NullValue
  /\ gradeOut' = Some(computeGrade(gradeIn[1]))
  /\ UNCHANGED <<gradeIn, dupVars, shufVars, planVars, jsonVars, normVars,
                 extractVars, appVars>>

GradeIdle ==
  /\ gradeIn = NullValue
  /\ gradeOut = NullValue

(***************************************************************************)
(* SpecExtract: extractOutputText applied to a drawn response envelope     *)
(***************************************************************************)
MaxOutputItems == 2
MaxContentItems == 2

TypedText == JObj([type |-> JStr("output_text"), text |-> JStr(" typed ")])
TypedBlank == JObj([type |-> JStr("output_text"), text |-> JStr(" \n")])
UntypedText == JObj([type |-> JStr("refusal"), text |-> JStr("untyped")])

Message(content) == JObj([type |-> JStr("message"), content |-> content])

OutputItems ==
  {Message(JArr(content)) :
     content \in SeqsUpTo({TypedText, TypedBlank, UntypedText}, MaxContentItems)}
    \cup
  { JNull,
    JObj([type |-> JStr("reasoning"), content |-> JArr(<<TypedText>>)]),
    Message(JStr("not a list")),
    Message(JArr(<<JNull, JStr("bare"),
                   JObj([type |-> JStr("output_text")]),
                   JObj([type |-> JStr("output_text"), text |-> JNum(Num(5))]),
                   JObj([text |-> JStr("last")])>>)) }

Envelopes ==
  { JNull, JStr("text") } \cup
  { JObj(aggregated @@ output) :
      aggregated \in Member("output_text",
                            {JStr("aggregated"), JStr(" \t"), JStr(""), JNum(Num(1))}),
      output \in Member("output",
                        {JStr("not a list")} \cup
                          {JArr(items) : items \in SeqsUpTo(OutputItems, MaxOutputItems)}) }

ExtractInit ==
  /\ extractIn \in {Some(resp) : resp \in Envelopes}
  /\ extractOut = NullValue

Extract ==
  /\ extractIn # NullValue
  /\ extractOut = NullValue
  /\ extractOut' = Some(extractOutputText(extractIn[1]))
  /\ UNCHANGED <<extractIn, dupVars, shufVars, planVars, jsonVars, normVars,
                 gradeVars, appVars>>

ExtractIdle ==
  /\ extractIn = NullValue
  /\ extractOut = NullValue

OthersIdle == NormIdle /\ GradeIdle /\ ExtractIdle

(***************************************************************************)
(* Specifications                                                          *)
(***************************************************************************)
InitDup == DupInit /\ ShufIdle /\ PlanIdle /\ JsonIdle /\ AppInit /\ OthersIdle
SpecDup == InitDup /\ [][DupCheck]_vars

InitShuffle == ShufInit /\ DupIdle /\ PlanIdle /\ JsonIdle /\ AppInit /\ OthersIdle
SpecShuffle == InitShuffle /\ [][Randomize]_vars

InitPlan == PlanInit /\ DupIdle /\ ShufIdle /\ JsonIdle /\ AppInit /\ OthersIdle
SpecPlan == InitPlan /\ [][BuildPlan]_vars

InitJson == JsonInit /\ DupIdle /\ ShufIdle /\ PlanIdle /\ AppInit /\ OthersIdle
SpecJson == InitJson /\ [][SafeParse]_vars

InitNormalize ==
  /\ NormInit /\ GradeIdle /\ ExtractIdle
  /\ DupIdle /\ ShufIdle /\ PlanIdle /\ JsonIdle /\ AppInit
SpecNormalize == InitNormalize /\ [][Normalize]_vars

InitGrade ==
  /\ GradeInit /\ NormIdle /\ ExtractIdle
  /\ DupIdle /\ ShufIdle /\ PlanIdle /\ JsonIdle /\ AppInit
SpecGrade == InitGrade /\ [][Grade]_vars

InitExtract ==
  /\ ExtractInit /\ NormIdle /\ GradeIdle
  /\ DupIdle /\ ShufIdle /\ PlanIdle /\ JsonIdle /\ AppInit
SpecExtract == InitExtract /\ [][Extract]_vars

InitSession == SessionInit /\ DupIdle /\ ShufIdle /\ PlanIdle /\ JsonIdle /\ OthersIdle
SpecSession == InitSession /\ [][NextSession]_vars
SpecAnswer == InitSession /\ [][NextAnswer]_vars

InitAddMore == AddMoreInit /\ DupIdle /\ ShufIdle /\ PlanIdle /\ JsonIdle /\ OthersIdle
SpecAddMore == InitAddMore /\ [][NextAddMore]_vars
SpecOverlap == InitAddMore /\ [][NextOverlap]_vars

(* The response to a request arrives, and a save that was issued completes *)
FairAddMore ==
  /\ SpecAddMore
  /\ WF_vars(AddMoreResponse)
  /\ WF_vars(SaveSnapshot)
  /\ WF_vars(SaveDone)

Init == AppInit /\ DupIdle /\ ShufIdle /\ PlanIdle /\ JsonIdle /\ OthersIdle
Spec == Init /\ [][Next]_vars

(***************************************************************************)
(* Claims                                                                  *)
(***************************************************************************)
(* The step of generateFromText that receives the response *)
GenerateReceives == gen.pc = "request" /\ gen'.pc # "request"

(* An answer index that is an integer position of the choices *)
InRange(h, seq) == IsInteger(h) /\ 0 <= h /\ h < Num(Len(seq))

(* C1: generateFromText is atomic.  When the response fails to parse, has  *)
(* no or an empty questions list, or holds a question that normalizeQuestion*)
(* rejects, the call fails, the vault's quizzes and currentQuizId are      *)
(* unchanged and no save is issued; otherwise (every question normalizes)  *)
(* exactly one quiz is appended, it becomes the current quiz and one save  *)
(* is issued.  A save of generateFromText is in flight only for a response *)
(* whose questions all normalized.                                         *)
C1_GenerateAtomic ==
  /\ [](\A i \in 1..Len(saves) :
          saves[i].owner = "gen" => gen.pc = "saving" /\ gen.kind = "all_ok")
  /\ [][GenerateReceives =>
          IF gen'.kind \in {"parse_failure", "no_questions", "bad_question"}
          THEN /\ gen'.pc = "failed"
               /\ UNCHANGED <<quizzes, heap, currentQuizId, saves, stored>>
          ELSE /\ gen'.kind = "all_ok"
               /\ gen'.pc = "saving"
               /\ Len(quizzes') = Len(quizzes) + 1
               /\ SubSeq(quizzes', 1, Len(quizzes)) = quizzes
               /\ currentQuizId' = quizzes'[Len(quizzes')]
               /\ saves' = Append(saves, [owner |-> "gen", pc |-> "derive",
                                          snap |-> <<>>])]_vars

(* A call that failed on a response whose first question was good and      *)
(* whose second had a blank choice                                         *)
C1_Witness ==
  /\ gen.pc = "failed"
  /\ gen.kind = "bad_question"
  /\ gen.err = "ChoiceCountMismatch"
  /\ quizzes = <<>>
  /\ currentQuizId = NoId
  /\ saves = <<>>
  /\ stored = <<>>

(* C2: addMoreQuestionsToCurrentQuiz is partial-success-tolerant: the call *)
(* fails only when its accepted set is empty, so a call that has accepted  *)
(* a question does not fail, whatever later attempts return.               *)
C2_PartialSuccess == add.pc = "failed" => add.collected = <<>>

(* C3: when every response to a collect-more call parses and holds only    *)
(* questions that normalize and repeat (exactly or nearly) a question the  *)
(* quiz had at the start of the call, the call accepts nothing, makes      *)
(* exactly 3 requests and then fails with NoNewQuestions; none of its      *)
(* steps changes a quiz or issues a save.                                  *)
C3_OnlyDuplicates ==
  /\ [](add.pc # "idle" /\ add.attempts >= 1 /\ add.repeats # NoRepeats =>
          /\ add.collected = <<>>
          /\ add.pc \in {"request", "failed"}
          /\ add.pc = "request" => add.attempts <= 3
          /\ add.pc = "failed" => add.attempts = 3 /\ add.err = "NoNewQuestions"
          /\ \A i \in 1..Len(saves) : saves[i].owner # "add")
  /\ [][add.pc = "request" /\ add' # add /\ add'.repeats # NoRepeats =>
          UNCHANGED <<quizzes, heap, saves, stored>>]_vars

(* A call that failed after three responses of repeated questions *)
C3_Witness ==
  /\ add.pc = "failed"
  /\ add.err = "NoNewQuestions"
  /\ add.attempts = 3
  /\ add.repeats >= 3
  /\ Len(heap[add.quizId].questions) = Len(add.existingQuestions)

(* C4: every question of every quiz in the vault has an integer            *)
(* answer_index with 0 <= answer_index < choices.length.                   *)
C4_AnswerIndexInRange ==
  \A i \in 1..Len(quizzes) :
    \A k \in 1..Len(heap[quizzes[i]].questions) :
      LET question == heap[quizzes[i]].questions[k]
      IN InRange(question.answer_index, question.choices)

(* The vault holds a copy of a quiz that was generated from a question     *)
(* with a fractional answer_index and gained a question with an            *)
(* answer_index beyond its choices                                         *)
C4_Witness ==
  /\ Len(quizzes) = 2
  /\ add.pc = "done"
  /\ \A i \in 1..2 :
       {"What is the capital of France now?", "Name the longest river in Egypt"}
         \subseteq Range(Texts(heap[quizzes[i]].questions))

(* The words of length >= 3 of a normalized text, and the Jaccard          *)
(* similarity |A \cap B| / |A \cup B| (0 when either set is empty)         *)
(* compared with 0.72 = 18/25, stated on the sets themselves.              *)
WordsOf(n) ==
  {w \in tokenSet(n) : Len(w) >= 3}
SimilarSets(A, B) ==
  /\ A # {}
  /\ B # {}
  /\ 25 * Cardinality(A \cap B) >= 18 * Cardinality(A \cup B)

(* C6: isNearDuplicate(text, existing, existingTokenSets) is true exactly  *)
(* when the normalized text is empty, or it is a member of existing, or    *)
(* the Jaccard similarity of its token set with some existing token set    *)
(* is at least 0.72.                                                       *)
C6_NearDuplicateRule ==
  dupResult.done =>
    (dupResult.v <=>
       \/ normText(dupText) = ""
       \/ normText(dupText) \in dupExisting
       \/ \E i \in DOMAIN dupTokenSets :
            SimilarSets(WordsOf(normText(dupText)), dupTokenSets[i]))

(* C6 witness: a text rejected only by the similarity rule, at exactly     *)
(* 0.72, and another accepted although it shares words.                    *)
C6_Witness ==
  /\ dupResult.done
  /\ dupResult.v
  /\ dupText = LongTextA
  /\ normText(dupText) \notin dupExisting
  /\ dupTokenSets = <<tokenSet(LongTextB)>>

(* The number of positions of a sequence holding x *)
Count(seq, x) == Cardinality({i \in 1..Len(seq) : seq[i] = x})
IsPermutation(a, b) ==
  /\ Len(a) = Len(b)
  /\ \A x \in Range(a) \cup Range(b) : Count(a, x) = Count(b, x)
(* The element a 0-based integer index (in half units) selects *)
At(seq, h) == seq[(h \div 2) + 1]

(* C5: for a question whose answer_index is an integer in                  *)
(* [0, choices.length), whatever the shuffle draws, the new choices are a  *)
(* permutation of the old ones, the choice at the new answer_index is the  *)
(* text that was correct before, an in-range user_answer_index is remapped *)
(* to the same text and a null one stays null.                             *)
C5_ShufflePreservesAnswer ==
  (shufOut # <<>> /\ InRange(shufIn[1].answer_index, shufIn[1].choices)) =>
    LET old == shufIn[1]
        new == shufOut[1]
    IN /\ IsPermutation(new.choices, old.choices)
       /\ InRange(new.answer_index, new.choices)
       /\ At(new.choices, new.answer_index) = At(old.choices, old.answer_index)
       /\ (old.user_answer_index = NullValue) => (new.user_answer_index = NullValue)
       /\ (old.user_answer_index # NullValue
             /\ InRange(old.user_answer_index[1], old.choices)) =>
            /\ new.user_answer_index # NullValue
            /\ InRange(new.user_answer_index[1], new.choices)
            /\ At(new.choices, new.user_answer_index[1])
                 = At(old.choices, old.user_answer_index[1])

(* C5 witness: the spec's example shape, the correct choice moved by the   *)
(* shuffle and an answered question remapped with it.                      *)
C5_Witness ==
  /\ shufOut # <<>>
  /\ shufIn[1].choices = <<"Rome", "Rome", "Paris", "Rome">>
  /\ shufIn[1].answer_index = Num(2)
  /\ shufIn[1].user_answer_index = Some(Num(0))
  /\ shufOut[1].answer_index = Num(0)
  /\ shufOut[1].choices = <<"Paris", "Rome", "Rome", "Rome">>

(* Plan builder claims: the registry position of a type, the enabled       *)
(* types, a configured quantity clamped to [0, total], and the enabled     *)
(* types whose clamped quantity is positive.                               *)
RegistryIndex(key) == CHOOSE i \in 1..Len(questionTypeRegistry) : questionTypeRegistry[i] = key
EnabledTypes == {k \in Range(questionTypeRegistry) : planSettings[k].enabled}
Clamped(k) ==
  IF planSettings[k].quantity < 0 THEN 0
  ELSE IF planSettings[k].quantity > planTotal THEN planTotal
  ELSE planSettings[k].quantity
PositiveTypes == {k \in EnabledTypes : Clamped(k) > 0}
FirstEnabled == CHOOSE k \in EnabledTypes :
                  \A l \in EnabledTypes : RegistryIndex(k) <= RegistryIndex(l)
PlanEntries(plan) == {<<plan[i].entry, plan[i].quantity>> : i \in 1..Len(plan)}
InRegistryOrder(plan) ==
  \A i, j \in 1..Len(plan) :
    i < j => RegistryIndex(plan[i].entry) < RegistryIndex(plan[j].entry)
RECURSIVE SumOver(_)
SumOver(S) ==
  IF S = {} THEN 0
  ELSE LET k == CHOOSE x \in S : TRUE IN Clamped(k) + SumOver(S \ {k})

(* C9: with no type enabled the plan is (multiple-choice, total); with     *)
(* exactly one enabled it is (that type, total); with two or more it has   *)
(* one entry per enabled type whose quantity clamped to [0, total] is      *)
(* positive, carrying that clamped quantity, or is (first enabled type,    *)
(* total) when no clamped quantity is positive; entries are in registry    *)
(* order.                                                                  *)
C9_PlanShape ==
  planOut # <<>> =>
    LET plan == planOut[1]
    IN /\ InRegistryOrder(plan)
       /\ Cardinality(EnabledTypes) = 0 =>
            plan = <<[entry |-> "multipleChoiceEnabled", quantity |-> planTotal]>>
       /\ Cardinality(EnabledTypes) = 1 =>
            \E k \in EnabledTypes : plan = <<[entry |-> k, quantity |-> planTotal]>>
       /\ (Cardinality(EnabledTypes) >= 2 /\ PositiveTypes # {}) =>
            /\ Len(plan) = Cardinality(PositiveTypes)
            /\ PlanEntries(plan) = {<<k, Clamped(k)>> : k \in PositiveTypes}
       /\ (Cardinality(EnabledTypes) >= 2 /\ PositiveTypes = {}) =>
            plan = <<[entry |-> FirstEnabled, quantity |-> planTotal]>>

(* C9 witness: three types enabled, one clamped down to the total, one     *)
(* dropped for a zero quantity, the plan in registry order.                *)
C9_Witness ==
  /\ planOut # <<>>
  /\ planTotal = 2
  /\ EnabledTypes = {"shortLongEnabled", "matchingEnabled", "trueFalseEnabled"}
  /\ planSettings["matchingEnabled"].quantity = 3
  /\ planSettings["trueFalseEnabled"].quantity = 0
  /\ planSettings["shortLongEnabled"].quantity = 1
  /\ planOut[1] = <<[entry |-> "matchingEnabled", quantity |-> 2],
                    [entry |-> "shortLongEnabled", quantity |-> 1]>>

(* C10 as stated: the sum of the plan's quantities is the requested total  *)
(* when zero or one type is enabled, and with several enabled types it is  *)
(* the sum of the configured quantities, each clamped, not the total.      *)
C10_Original ==
  planOut # <<>> =>
    /\ Cardinality(EnabledTypes) <= 1 =>
         totalQuestionsFromPlan(planOut[1]) = planTotal
    /\ Cardinality(EnabledTypes) >= 2 =>
         totalQuestionsFromPlan(planOut[1]) = SumOver(EnabledTypes)

(* C10 amended: the sum is the requested total when zero or one type is    *)
(* enabled; with several enabled types it is the sum of the clamped        *)
(* configured quantities when one of them is positive, and the requested   *)
(* total when none is (the first enabled type then gets the whole count).  *)
C10_SumOfPlan ==
  planOut # <<>> =>
    /\ Cardinality(EnabledTypes) <= 1 =>
         totalQuestionsFromPlan(planOut[1]) = planTotal
    /\ (Cardinality(EnabledTypes) >= 2 /\ PositiveTypes # {}) =>
         totalQuestionsFromPlan(planOut[1]) = SumOver(EnabledTypes)
    /\ (Cardinality(EnabledTypes) >= 2 /\ PositiveTypes = {}) =>
         totalQuestionsFromPlan(planOut[1]) = planTotal

(* C10 witness: several types enabled and a sum that is not the requested  *)
(* total.                                                                  *)
C10_Witness ==
  /\ planOut # <<>>
  /\ Cardinality(EnabledTypes) >= 2
  /\ PositiveTypes # {}
  /\ totalQuestionsFromPlan(planOut[1]) > planTotal

(* C7: for any JSON value X, safeParseJson applied to a rendering of X     *)
(* that is wrapped in code fences, written with curly quotes in place of   *)
(* straight quotes, or carrying a stray trailing comma before a closer     *)
(* returns a value equal to X.                                             *)
C7_RoundTrip ==
  (jsonOut # NullValue /\ jsonIn.wrap \in {"fences", "curly", "comma"})
    => (jsonOut[1].ok /\ jsonOut[1].value = jsonIn.value[1])

(* The strings of cs from position from on, each as the pair of the        *)
(* positions of its opening and closing quotes; a quote after an odd       *)
(* number of backslashes does not close, and a string left open runs past  *)
(* the end of cs                                                           *)
RECURSIVE StringSpans(_, _)
StringSpans(cs, from) ==
  LET quotes == {i \in from..Len(cs) : cs[i] = "\""}
  IN IF quotes = {} THEN {}
     ELSE LET open == SetMin(quotes)
              close == StringEnd(cs, open)
          IN IF close = 0 THEN {<<open, Len(cs) + 1>>}
             ELSE {<<open, close>>} \cup StringSpans(cs, close + 1)

(* Openers minus closers, counting only the brackets outside strings *)
DepthOutsideStrings(cs) ==
  LET spans == StringSpans(cs, 1)
      Outside(i) == \A s \in spans : i < s[1] \/ i > s[2]
  IN Cardinality({i \in 1..Len(cs) : IsOpener(cs[i]) /\ Outside(i)})
       - Cardinality({i \in 1..Len(cs) : IsCloser(cs[i]) /\ Outside(i)})

TruncatedExample == "{\"title\":\"t\",\"questions\":[{\"q\":\"x\""
MalformedExample == "not json at all"

(* C8: when safeParseJson fails on non-blank text, the failure is          *)
(* Malformed ("not JSON") if the normalized text holds no { and no [;      *)
(* otherwise it is Truncated exactly when the repaired tail from the first *)
(* { or [ does not end with } or ] or its string-aware depth scan ends     *)
(* at a non-zero depth, and Malformed (with the parse error) in every      *)
(* other case.  The cut-off example quiz is Truncated and the text         *)
(* "not json at all" is Malformed.                                         *)
C8_FailureKind ==
  jsonOut # NullValue =>
    LET err == jsonOut[1].err
        cleaned == repairJsonCommon(TrimChars(Chars(jsonIn.text)))
        openers == {i \in 1..Len(cleaned) : IsOpener(cleaned[i])}
        tail == repairJsonCommon(SubSeq(cleaned, SetMin(openers), Len(cleaned)))
    IN /\ (~jsonOut[1].ok /\ Trim(jsonIn.text) # "") =>
            IF openers = {} THEN err = "NotJson"
            ELSE IF ~IsCloser(tail[Len(tail)]) \/ DepthOutsideStrings(tail) # 0
                 THEN err = "Truncated"
                 ELSE err = "Invalid"
       /\ jsonIn.text = TruncatedExample => ~jsonOut[1].ok /\ err = "Truncated"
       /\ jsonIn.text = MalformedExample => ~jsonOut[1].ok /\ err = "NotJson"

C8_Witness ==
  /\ jsonOut # NullValue
  /\ jsonIn.text = TruncatedExample
  /\ ~jsonOut[1].ok
  /\ jsonOut[1].err = "Truncated"

(* The positions of the registry whose predicate accepts the candidate *)
MatchingEntries(q) ==
  {i \in 1..Len(questionTypeRegistry) : typeGuard(questionTypeRegistry[i], q)}

(* C11: normalizeQuestion produces no question from a candidate whose      *)
(* first matching registry predicate is not multiple-choice: a candidate   *)
(* matching no predicate fails with the no-schema error, and one whose     *)
(* first match, in the order matching, select-all, fill-blank,             *)
(* multiple-choice, true/false, short/long, is another variant fails with  *)
(* the unsupported-type error.                                             *)
C11_OnlyMultipleChoice ==
  /\ questionTypeRegistry =
       <<"matchingEnabled", "selectAllEnabled", "fillBlankEnabled",
         "multipleChoiceEnabled", "trueFalseEnabled", "shortLongEnabled">>
  /\ normOut # NullValue =>
       LET hits == MatchingEntries(normIn[1].q)
           first == questionTypeRegistry[SetMin(hits)]
           r == normOut[1]
       IN IF hits = {} THEN ~r.ok /\ r.err = "NoSchema"
          ELSE IF first # "multipleChoiceEnabled"
          THEN ~r.ok /\ r.err = "UnsupportedType"
          ELSE r.err \notin {"NoSchema", "UnsupportedType"}

(* A candidate that is both a select-all and a multiple-choice question *)
C11_Witness ==
  /\ normOut # NullValue
  /\ MatchingEntries(normIn[1].q) = {2, 4}
  /\ ~normOut[1].ok
  /\ normOut[1].err = "UnsupportedType"

IsBlank(s) == \A k \in 1..Len(s) : IsSpace(SubSeq(s, k, k))

(* The choices of a candidate that are not blank, trimmed, in their order *)
SurvivingChoices(q) ==
  LET raw == Get(q, "choices").v
      kept == SelectSeq([i \in 1..Len(raw) |-> raw[i].v], LAMBDA c : ~IsBlank(c))
  IN [i \in 1..Len(kept) |-> Trim(kept[i])]

MatchedAsMultipleChoice(q) ==
  /\ MatchingEntries(q) # {}
  /\ questionTypeRegistry[SetMin(MatchingEntries(q))] = "multipleChoiceEnabled"

(* C12: for a candidate matched as multiple-choice, normalizeQuestion      *)
(* fails with MissingText if the trimmed question text is empty; otherwise *)
(* it succeeds exactly when the number of choices that are non-blank after *)
(* trimming equals choicesCount, and then the choices of the result are    *)
(* the trimmed non-blank choices in their original order.                  *)
C12_ExactChoiceCount ==
  (normOut # NullValue /\ MatchedAsMultipleChoice(normIn[1].q)) =>
    LET q == normIn[1].q
        r == normOut[1]
    IN IF IsBlank(Get(q, "q").v)
       THEN ~r.ok /\ r.err = "MissingText"
       ELSE IF Len(SurvivingChoices(q)) = normIn[1].choicesCount
       THEN r.ok /\ r.question.choices = SurvivingChoices(q)
       ELSE ~r.ok /\ r.err = "ChoiceCountMismatch"

(* Five choices of which four survive are accepted with choicesCount = 4 *)
C12_Witness ==
  /\ normOut # NullValue
  /\ MatchedAsMultipleChoice(normIn[1].q)
  /\ Len(Get(normIn[1].q, "choices").v) = 5
  /\ normIn[1].choicesCount = 4
  /\ normOut[1].ok
  /\ normOut[1].question.choices = <<"D", "C", "B", "A">>

(* C19: for every candidate accepted by normalizeQuestion the resulting    *)
(* answer_index is an integer n with 0 <= n <= choices.length - 1,         *)
(* whatever finite number the candidate's answer_index is: a negative one  *)
(* gives 0, one above the last index gives choices.length - 1, and one     *)
(* that is not an integer is made an integer.                              *)
C19_AnswerIndexInteger ==
  (normOut # NullValue /\ normOut[1].ok) =>
    LET given == Get(normIn[1].q, "answer_index").v
        last == Num(Len(normOut[1].question.choices) - 1)
        ai == normOut[1].question.answer_index
    IN /\ IsInteger(ai)
       /\ 0 <= ai /\ ai <= last
       /\ given < 0 => ai = 0
       /\ given > last => ai = last

(* p is 100 * num / den rounded to the nearest integer, a half going up *)
IsRoundedHalfUp(p, num, den) ==
  /\ 2 * den * p <= 200 * num + den
  /\ 200 * num + den < 2 * den * (p + 1)

(* C13: computeGrade returns total = number of questions, answered =       *)
(* number of questions with a non-null user answer, correct = number of    *)
(* answered questions whose user answer equals answer_index, a record      *)
(* (isAnswered, isCorrect, user choice, correct choice) per question in    *)
(* question order, accuracyAnswered = round-half-up(100*correct/answered)  *)
(* or 0 when answered = 0, accuracyTotal likewise over total (5 questions, *)
(* 3 answered, 2 correct give 67 and 40); the quiz is not modified.        *)
C13_GradeResult ==
  gradeOut # NullValue =>
    LET questions == gradeIn[1].questions
        g == gradeOut[1]
        Answered == {i \in 1..Len(questions) : questions[i].user_answer_index # NullValue}
        Correct == {i \in Answered :
                      questions[i].user_answer_index[1] = questions[i].answer_index}
    IN /\ g.total = Len(questions)
       /\ g.answered = Cardinality(Answered)
       /\ g.correct = Cardinality(Correct)
       /\ Len(g.per) = Len(questions)
       /\ \A i \in 1..Len(questions) :
            /\ g.per[i].isAnswered = (i \in Answered)
            /\ g.per[i].isCorrect = (i \in Correct)
            /\ g.per[i].ua = questions[i].user_answer_index
            /\ g.per[i].ca = questions[i].answer_index
       /\ IF Answered = {} THEN g.accuracyAnswered = 0
          ELSE IsRoundedHalfUp(g.accuracyAnswered, g.correct, g.answered)
       /\ IF Len(questions) = 0 THEN g.accuracyTotal = 0
          ELSE IsRoundedHalfUp(g.accuracyTotal, g.correct, g.total)
       /\ (g.total = 5 /\ g.answered = 3 /\ g.correct = 2)
            => (g.accuracyAnswered = 67 /\ g.accuracyTotal = 40)

RECURSIVE ContentPayloads(_, _)
ContentPayloads(content, j) ==
  IF j > Len(content) THEN <<>>
  ELSE (IF IsNonBlankString(Get(content[j], "text"))
        THEN <<Get(content[j], "text").v>> ELSE <<>>)
         \o ContentPayloads(content, j + 1)

(* The payloads of the message items of an output list, in order *)
RECURSIVE OutputPayloads(_, _)
OutputPayloads(items, i) ==
  IF i > Len(items) THEN <<>>
  ELSE (IF Get(items[i], "type") = JStr("message")
           /\ Get(items[i], "content").t = "array"
        THEN ContentPayloads(Get(items[i], "content").v, 1) ELSE <<>>)
         \o OutputPayloads(items, i + 1)

(* C14: extractOutputText returns the aggregated output_text field when it *)
(* is a non-blank string; otherwise the first non-blank text payload found *)
(* scanning the message items of the output list in order and, within      *)
(* each, its content items in order; and the empty string when there is no *)
(* such text, as when the output list is absent or not a list.             *)
C14_ExtractedText ==
  extractOut # NullValue =>
    LET resp == extractIn[1]
        aggregated == Get(resp, "output_text")
        payloads == IF Get(resp, "output").t = "array"
                    THEN OutputPayloads(Get(resp, "output").v, 1) ELSE <<>>
    IN IF IsNonBlankString(aggregated) THEN extractOut[1] = aggregated.v
       ELSE IF payloads = <<>> THEN extractOut[1] = ""
       ELSE extractOut[1] = payloads[1]

(* A blank aggregated field, a message with only a blank text, then a      *)
(* message whose second content item holds the first payload               *)
C14_Witness ==
  /\ extractOut # NullValue
  /\ Get(extractIn[1], "output_text") = JStr(" \t")
  /\ Get(extractIn[1], "output") =
       JArr(<<Message(JArr(<<TypedBlank>>)),
              Message(JArr(<<TypedBlank, UntypedText>>))>>)
  /\ extractOut[1] = "untyped"

(* The positions from start on at which a bracket outside the strings      *)
(* brings the depth, counted from start, back to zero                      *)
BalancedEnds(cs, start) ==
  LET spans == StringSpans(cs, start)
      Outside(i) == \A s \in spans : i < s[1] \/ i > s[2]
      DepthAt(i) ==
        Cardinality({k \in start..i : IsOpener(cs[k]) /\ Outside(k)})
          - Cardinality({k \in start..i : IsCloser(cs[k]) /\ Outside(k)})
  IN {i \in start..Len(cs) : IsCloser(cs[i]) /\ Outside(i) /\ DepthAt(i) = 0}

(* C15: when the direct parse of the normalized text fails, safeParseJson  *)
(* scans from the first { or [, counting depth outside double-quoted       *)
(* strings only, and ends the candidate where the depth returns to zero    *)
(* for the first time: a complete balanced structure followed by further   *)
(* text, even text with more brackets or another balanced structure, is    *)
(* returned as the value of that first structure.                          *)
C15_FirstStructure ==
  jsonOut # NullValue =>
    LET cleaned == repairJsonCommon(TrimChars(Chars(jsonIn.text)))
        openers == {i \in 1..Len(cleaned) : IsOpener(cleaned[i])}
        start == SetMin(openers)
        ends == BalancedEnds(cleaned, start)
        structure == JSONparse(repairJsonCommon(SubSeq(cleaned, start, SetMin(ends))))
    IN (/\ Len(cleaned) > 0
        /\ ~JSONparse(cleaned).ok
        /\ openers # {}
        /\ ends # {}
        /\ structure.ok)
         => (jsonOut[1].ok /\ jsonOut[1].value = structure.value)

(* A closer and the following opener of the same kind with nothing but     *)
(* whitespace, and some of it, between them                                *)
HasBareGap(cs) ==
  \E i \in 1..Len(cs) : \E j \in (i + 2)..Len(cs) :
    /\ <<cs[i], cs[j]>> \in {<<"}", "{">>, <<"]", "[">>}
    /\ \A k \in (i + 1)..(j - 1) : IsSpace(cs[k])

TwoObjects == JArr(<<JObj([a |-> JNum(Num(1))]), JObj([b |-> JNum(Num(2))])>>)

(* C20: repairJsonCommon inserts a comma between a } and a following {,    *)
(* and between a ] and a following [, whenever only whitespace of any kind *)
(* (spaces, tabs, newlines) separates the two, so that two adjacent        *)
(* elements that lack their separator parse as two elements.               *)
C20_CommaInserted ==
  jsonOut # NullValue =>
    /\ ~HasBareGap(repairJsonCommon(Chars(jsonIn.text)))
    /\ jsonIn.text = "[{\"a\":1}  {\"b\":2}]"
         => (jsonOut[1].ok /\ jsonOut[1].value = TwoObjects)

(* The duplicate rule: a is a duplicate of b when its normalized text is   *)
(* empty or is that of b, or when their token sets share at least 0.72 of  *)
(* their union                                                             *)
IsDuplicateOf(a, b) ==
  \/ NormTable[a] = ""
  \/ NormTable[a] = NormTable[b]
  \/ /\ TokenTable[a] \cup TokenTable[b] # {}
     /\ 100 * Cardinality(TokenTable[a] \cap TokenTable[b])
          >= 72 * Cardinality(TokenTable[a] \cup TokenTable[b])

(* C16: every question one addMoreQuestionsToCurrentQuiz call appends is   *)
(* a duplicate neither of a question that was in the quiz when the call    *)
(* started nor of another question accepted by the same call, in this      *)
(* attempt or an earlier one.                                              *)
C16_AppendedAreNew ==
  /\ \A i \in 1..Len(add.collected) :
       /\ \A k \in 1..Len(add.existingQuestions) :
            ~IsDuplicateOf(add.collected[i].q, add.existingQuestions[k])
       /\ \A j \in 1..Len(add.collected) :
            j # i => ~IsDuplicateOf(add.collected[i].q, add.collected[j].q)
  /\ add.pc \in {"saving", "done"} =>
       \A i \in 1..Len(add.collected) :
         \E k \in 1..Len(heap[add.quizId].questions) :
           heap[add.quizId].questions[k].q = add.collected[i].q

(* Two questions accepted in two attempts of one call and appended to a    *)
(* quiz that held one question                                             *)
C16_Witness ==
  /\ add.pc = "done"
  /\ add.attempts = 2
  /\ Len(add.existingQuestions) = 1
  /\ Len(add.collected) = 2
  /\ Len(heap[add.quizId].questions) = 3

(* The call is waiting for the response to a generation request *)
AddRequesting == add.pc = "request"

(* The call has returned or thrown *)
AddReturned == add.pc \in {"done", "failed"}

(* attempts counts the requests the call has issued: a step that issues a  *)
(* request is a step that adds one to it                                   *)
AddIssuesRequest ==
  /\ add'.pc = "request"
  /\ add.pc # "request" \/ add' # add

(* C17: one call of addMoreQuestionsToCurrentQuiz issues at most 3         *)
(* generation requests, issues none once the number of accepted questions  *)
(* has reached the desired count N, and terminates.                        *)
C17_BoundedRequests ==
  /\ [](add.attempts <= 3)
  /\ [](AddRequesting => Len(add.collected) < add.desired)
  /\ [][AddIssuesRequest =>
         /\ add'.attempts = (IF add.pc = "request" THEN add.attempts ELSE 0) + 1
         /\ Len(add'.collected) < add'.desired]_vars
  /\ (AddRequesting ~> AddReturned)

(* The call returns after its third request, short of the desired count *)
C17_Witness ==
  /\ add.pc = "done"
  /\ add.attempts = 3
  /\ Len(add.collected) = 1
  /\ add.desired = 2

(* min(12, N - number accepted so far) for the call in progress *)
StillWanted ==
  IF add.desired - Len(add.collected) < 12
  THEN add.desired - Len(add.collected)
  ELSE 12

(* C18: in every attempt of addMoreQuestionsToCurrentQuiz the number of    *)
(* questions the outbound prompt asks for is min(12, N - number accepted   *)
(* so far), for every configuration of enabled question types.             *)
C18_RequestedCount ==
  AddRequesting => add.reqTotalQuestions = StillWanted

(* The same with at most one question type enabled *)
C18_SingleType ==
  /\ AddRequesting
  /\ Cardinality({entry \in Range(questionTypeRegistry) :
                    add.settings[entry].enabled}) <= 1
  => add.reqTotalQuestions = StillWanted

(* The quiz id is in the vault with questions that no quiz of the stored   *)
(* blob has                                                                *)
Unwritten(id) ==
  /\ id \in Range(quizzes)
  /\ \A k \in 1..Len(stored) : stored[k].questions # heap[id].questions

(* A fresh generation or a collect-more call has changed the quiz id in    *)
(* memory and is awaiting its saveEncrypted                                *)
PipelineSaving(id) ==
  \/ add.pc = "saving" /\ add.quizId = id
  \/ /\ gen.pc = "saving"
     /\ Len(saves) = 1
     /\ saves[1].owner = "gen"

(* A render by another handler that shows the quiz id with the questions   *)
(* it has in memory                                                        *)
RendersQuiz(id) ==
  /\ ShowQuiz \/ LibraryLoad
  /\ view'.quizId = id
  /\ view'.len = Len(heap[id].questions)

(* C21: within one fresh-generation or collect-more invocation no other    *)
(* handler runs and reads the quiz with the newly added questions before   *)
(* the persistence write of that state has completed.                      *)
C21_NoReadBeforeWrite ==
  [][\A id \in 1..Len(heap) :
       PipelineSaving(id) /\ Unwritten(id) => ~RendersQuiz(id)]_vars

(* C22: a submitted quiz never gains questions: in every reachable state,  *)
(* also when Submit is pressed while a collect-more request for the quiz   *)
(* is in flight, submitted = true implies a non-null grade with            *)
(* grade.total = grade.per.length = questions.length.                      *)
C22_SubmittedQuizFixed ==
  \A id \in 1..Len(heap) :
    heap[id].submitted =>
      /\ heap[id].grade # NoGrade
      /\ heap[id].grade[1].total = Len(heap[id].grade[1].per)
      /\ heap[id].grade[1].total = Len(heap[id].questions)

(* The step in which an invocation appends its accepted questions *)
Appends(call, callNext) == call.pc = "request" /\ callNext.pc = "saving"

(* None of the questions the invocation appends is a duplicate of a        *)
(* question the quiz holds when they are appended                          *)
AppendsNoRepeat(call, callNext) ==
  \A i \in 1..Len(callNext.collected) :
    \A k \in 1..Len(heap[call.quizId].questions) :
      ~IsDuplicateOf(callNext.collected[i].q, heap[call.quizId].questions[k].q)

(* C23: at the moment an addMoreQuestionsToCurrentQuiz invocation appends  *)
(* its accepted questions, none of them is a duplicate of a question then  *)
(* present in the quiz, including questions appended by another            *)
(* invocation on the same quiz that ran while this one was waiting.        *)
C23_NoRepeatsUnderOverlap ==
  [][/\ Appends(add, add') => AppendsNoRepeat(add, add')
     /\ Appends(addOther, addOther') => AppendsNoRepeat(addOther, addOther')]_vars

(* C24: no lost persistence update: when every saveEncrypted that was      *)
(* called has completed, whether or not the calls overlapped, the stored   *)
(* blob is the encryption of the vault as it is in memory.                 *)
C24_NoLostUpdate ==
  saves = <<>> => stored = VaultQuizzes

(* C25: a successful addMoreQuestionsToCurrentQuiz call with desired count *)
(* N, clamped to 1..50, appends k questions with 1 <= k <= N, also when a  *)
(* batch holds more questions than were requested, and the questions the   *)
(* quiz had keep their content, answers and positions as a prefix of the   *)
(* new list.                                                               *)
C25_AppendsAtMostDesired ==
  [][Appends(add, add') =>
       LET old == heap[add.quizId].questions
           new == heap'[add.quizId].questions
           k == Len(new) - Len(old)
       IN /\ add.desired \in 1..50
          /\ 1 <= k /\ k <= add.desired
          /\ k = Len(add'.collected)
          /\ SubSeq(new, 1, Len(old)) = old]_vars

(* A call that wanted one question has appended one after the question    *)
(* the quiz had                                                            *)
C25_Witness ==
  /\ add.pc = "saving"
  /\ add.desired = 1
  /\ Len(add.existingQuestions) = 1
  /\ Len(heap[add.quizId].questions) = 2
  /\ heap[add.quizId].questions[1] = LoadedQuiz.questions[1]

(* C26: every quiz in the vault has at least one question in every         *)
(* reachable state, so the current-question lookup of the view, at         *)
(* currentIndex clamped to [0, questions.length - 1], yields a question    *)
(* of the quiz.                                                            *)
C26_QuizzesNotEmpty ==
  /\ \A i \in 1..Len(quizzes) :
       LET quiz == heap[quizzes[i]]
       IN /\ Len(quiz.questions) >= 1
          /\ clampInt(quiz.currentIndex, 0, Len(quiz.questions) - 1, 0) + 1
               \in DOMAIN quiz.questions
  /\ view.quizId # NoId => view.idx + 1 \in DOMAIN heap[view.quizId].questions

(* A generated quiz and its copy, after a collect-more call, one of them   *)
(* shown in the view                                                       *)
C26_Witness ==
  /\ Len(quizzes) = 2
  /\ add.pc = "done"
  /\ saves = <<>>
  /\ view.quizId # NoId
  /\ \E i \in 1..2 : Len(heap[quizzes[i]].questions) = 2

(* The step of the library's Copy handler: it issues the save of a copy *)
CopyStep ==
  /\ Len(saves') = Len(saves) + 1
  /\ saves'[Len(saves')].owner = "copy"

(* clone is a fresh copy of orig: not submitted, not graded, at its first  *)
(* question, unanswered, and with the questions of orig in some order,     *)
(* each with the choices of the original in some order and the same        *)
(* correct-answer text                                                     *)
IsFreshCopy(clone, orig) ==
  /\ ~clone.submitted
  /\ clone.grade = NoGrade
  /\ clone.currentIndex = 0
  /\ clone.choicesCount = orig.choicesCount
  /\ Len(clone.questions) = Len(orig.questions)
  /\ \A i \in 1..Len(clone.questions) :
       clone.questions[i].user_answer_index = NullValue
  /\ \E p \in [1..Len(orig.questions) -> 1..Len(orig.questions)] :
       /\ \A i, j \in DOMAIN p : i # j => p[i] # p[j]
       /\ \A i \in DOMAIN p :
            LET was == orig.questions[i]
                is == clone.questions[p[i]]
            IN /\ is.q = was.q
               /\ IsPermutation(is.choices, was.choices)
               /\ InRange(is.answer_index, is.choices)
               /\ At(is.choices, is.answer_index) = At(was.choices, was.answer_index)

(* The effect of copyQuiz(id) for a quiz of the vault *)
CopiedFrom(id) ==
  /\ Len(heap') = Len(heap) + 1
  /\ SubSeq(heap', 1, Len(heap)) = heap
  /\ quizzes' = Append(quizzes, Len(heap'))
  /\ currentQuizId' = Len(heap')
  /\ IsFreshCopy(heap'[Len(heap')], heap[id])

(* C27: copyQuiz(id) for a quiz of the vault leaves the original and every *)
(* other quiz unchanged and adds exactly one quiz, which becomes the       *)
(* current quiz, with submitted = false, grade = null, currentIndex = 0,   *)
(* every user_answer_index = null and the same questions, each with the    *)
(* correct-answer text it had; for an unknown id it changes nothing.       *)
C27_CopyQuiz ==
  /\ [][CopyStep =>
          \/ \E id \in Range(quizzes) : CopiedFrom(id)
          \/ /\ LibraryRows \ Range(quizzes) # {}
             /\ UNCHANGED <<heap, quizzes, currentQuizId, nextId>>]_vars
  /\ [](\A id \in (0..(Len(heap) + 1)) \ Range(quizzes) :
          copyQuiz(heap, quizzes, currentQuizId, nextId, id, <<>>, <<>>)
            = [heap |-> heap, quizzes |-> quizzes, cur |-> currentQuizId,
               next |-> nextId])

(* The copy of a quiz that was answered and submitted *)
C27_Witness ==
  /\ quizzes = <<1, 2>>
  /\ currentQuizId = 2
  /\ heap[1].submitted
  /\ heap[1].questions[1].user_answer_index # NullValue
  /\ \E i \in 1..Len(saves) : saves[i].owner = "copy"
  /\ IsFreshCopy(heap[2], heap[1])

(* The answers the user gave in a quiz *)
UserAnswersOf(quiz) ==
  [i \in 1..Len(quiz.questions) |-> quiz.questions[i].user_answer_index]

(* Once submitted, a quiz stays submitted and the answers of its questions *)
(* stay what they were                                                     *)
C28_AnswersFinal ==
  [][\A id \in 1..Len(heap) :
       heap[id].submitted =>
         /\ heap'[id].submitted
         /\ \A i \in 1..Len(heap[id].questions) :
              heap'[id].questions[i].user_answer_index
                = heap[id].questions[i].user_answer_index]_vars

(* C28: submission is final for answers: once a quiz has submitted = true  *)
(* no choice click changes a user_answer_index of the quiz and submitted   *)
(* never returns to false, so pressing Submit again recomputes the same    *)
(* grade.                                                                  *)
C28_SubmissionFinal ==
  /\ C28_AnswersFinal
  /\ [][SubmitHandler /\ heap[view.quizId].submitted =>
          heap'[view.quizId].grade = heap[view.quizId].grade]_vars

(* A candidate with a string q, a list of strings as choices and a finite  *)
(* number as answer_index                                                  *)
HasMultipleChoiceFields(q) ==
  /\ q.t = "object"
  /\ Get(q, "q").t = "string"
  /\ Get(q, "choices").t = "array"
  /\ \A i \in 1..Len(Get(q, "choices").v) : Get(q, "choices").v[i].t = "string"
  /\ Get(q, "answer_index").t = "number"

(* A string prompt with a non-empty list of pairs of strings left, right *)
HasMatchingFields(q) ==
  /\ Get(q, "prompt").t = "string"
  /\ Get(q, "pairs").t = "array"
  /\ Len(Get(q, "pairs").v) > 0
  /\ \A i \in 1..Len(Get(q, "pairs").v) :
       LET pair == Get(q, "pairs").v[i]
       IN /\ pair.t = "object"
          /\ Get(pair, "left").t = "string"
          /\ Get(pair, "right").t = "string"

(* A non-empty list of numbers correct_indexes *)
HasSelectAllFields(q) ==
  /\ Get(q, "correct_indexes").t = "array"
  /\ Len(Get(q, "correct_indexes").v) > 0
  /\ \A i \in 1..Len(Get(q, "correct_indexes").v) :
       Get(q, "correct_indexes").v[i].t = "number"

(* A string answer *)
HasFillBlankFields(q) == Get(q, "answer").t = "string"

(* C29: a candidate that satisfies the multiple-choice predicate is        *)
(* normalized only if it satisfies none of the three predicates registered *)
(* before it: with a string prompt and a non-empty list of left/right      *)
(* string pairs, or a non-empty numeric correct_indexes list, or a string  *)
(* answer, normalizeQuestion rejects it as an unsupported type.            *)
C29_EarlierPredicatesWin ==
  (normOut # NullValue /\ HasMultipleChoiceFields(normIn[1].q)) =>
    LET q == normIn[1].q
        r == normOut[1]
        earlier == \/ HasMatchingFields(q)
                   \/ HasSelectAllFields(q)
                   \/ HasFillBlankFields(q)
    IN /\ earlier => ~r.ok /\ r.err = "UnsupportedType"
       /\ ~earlier => r.err # "UnsupportedType"
       /\ r.ok => ~earlier

(* A candidate with valid multiple-choice fields and a string answer,      *)
(* rejected as an unsupported type                                         *)
C29_Witness ==
  /\ normOut # NullValue
  /\ HasMultipleChoiceFields(normIn[1].q)
  /\ HasFillBlankFields(normIn[1].q)
  /\ Trim(Get(normIn[1].q, "q").v) # ""
  /\ Len(SurvivingChoices(normIn[1].q)) = normIn[1].choicesCount
  /\ InRange(Get(normIn[1].q, "answer_index").v, SurvivingChoices(normIn[1].q))
  /\ ~normOut[1].ok
  /\ normOut[1].err = "UnsupportedType"

(* C30: for every question type settings and every requested count of at   *)
(* least 1 the plan of buildQuestionTypePlan is not empty and each of its  *)
(* quantities is between 1 and the requested count, so the test for an     *)
(* empty plan in generateFromText and addMoreQuestionsToCurrentQuiz never  *)
(* fails.                                                                  *)
C30_PlanNeverEmpty ==
  (planOut # <<>> /\ planTotal >= 1) =>
    LET plan == planOut[1]
    IN /\ Len(plan) > 0
       /\ \A i \in 1..Len(plan) :
            1 <= plan[i].quantity /\ plan[i].quantity <= planTotal
       /\ ~PlanEmpty(plan)

(* Two types enabled, each with a configured quantity of 0: the plan is    *)
(* the first of them with the requested count                              *)
C30_Witness ==
  /\ planOut # <<>>
  /\ planTotal = 2
  /\ EnabledTypes = {"selectAllEnabled", "trueFalseEnabled"}
  /\ \A k \in EnabledTypes : planSettings[k].quantity = 0
  /\ planOut[1] = <<[entry |-> "selectAllEnabled", quantity |-> 2]>>
  /\ ~PlanEmpty(planOut[1])

====
